---- MODULE Spec2Model ----
(***************************************************************************)
(* Model of the MPS parser of ViewMPS (src/ViewMPS/src/utilities/mps.py).  *)
(*                                                                         *)
(* A text line is modelled as the sequence of fields obtained by cutting   *)
(* it at every single whitespace character: an empty field "" stands for   *)
(* one more whitespace character (a leading, trailing or doubled blank).   *)
(* A document is a sequence of such lines.  One call of CMPS(file_name) is *)
(* a run of the state machine: intake_mps_file, then the section           *)
(* processors in the order of CMPS.__init__, then the publication of the   *)
(* seven fields.                                                           *)
(***************************************************************************)
EXTENDS Integers, Sequences, FiniteSets, TLC

VARIABLES doc, pc, mps_data, problem_name, rows_dict, columns_dict,
          elements_dict, rhs_dict, ranges_dict, bounds_dict, self, raised

vars == <<doc, pc, mps_data, problem_name, rows_dict, columns_dict,
          elements_dict, rhs_dict, ranges_dict, bounds_dict, self, raised>>

-----------------------------------------------------------------------------
(* Bounds of the checked input space.                                      *)

MaxBlocks == 7

MaxEmptyBlocks == 6

MaxStray == 3

MaxRowLines == 3

MaxColLines == 2

MaxRhsLines == 3

MaxRangeLines == 3

MaxBoundLines == 3

MaxInserted == 2

-----------------------------------------------------------------------------
(* Python values.                                                          *)

EmptyDict == [k \in {} |-> 0]

Put(d, k, v) == [x \in (DOMAIN d) \cup {k} |-> IF x = k THEN v ELSE d[x]]

Range(s) == {s[k] : k \in DOMAIN s}

MPSExceptions ==
    {"NotMPSFileException", "NoNAMEException", "NoROWSException",
     "UnknownROWSTypeException", "BadROWSDataException",
     "UnknownRowException", "NoCOLUMNSException", "BadCOLUMNSDataException",
     "UnknownColumnException", "NoRHSException", "BadRHSDataException",
     "BadRANGESDataException", "UnknownBOUNDSTypeException",
     "BadBOUNDSDataException", "NoENDATAException", "NoROWSDataException",
     "NoCOLUMNSDataException"}

MPS_ROW_TYPES == {"N", "L", "G", "E"}

MPS_BOUNDS_TYPES == {"LO", "UP", "FX", "FR", "MI", "PL"}

(* Fields made of one character (the \S of MPS_ROWS_DATA_RE).              *)
SingleChar == {"N", "L", "G", "E", "Q", "n", "0", "1", "3", "4", "5", "6",
               "7", "9", "e", ".", "X", "Y", "Z", "P", "*", "&"}

(* Fields made only of the characters of the class [0-9eE.+-].             *)
NumChars == {"0", "0.0", "1", "3", "4", "5", "6", "7", "9", "10", "-1", "e",
             "."}

(* float(): the fields of NumChars that are not a number raise ValueError. *)
float_raises(tok) == tok \in {"e", "."}

float(tok) ==
    CASE tok = "0" -> 0
      [] tok = "0.0" -> 0
      [] tok = "3" -> 3
      [] tok = "4" -> 4
      [] tok = "5" -> 5
      [] tok = "6" -> 6
      [] tok = "-1" -> -1
      [] tok = "1" -> 1
      [] tok = "7" -> 7
      [] tok = "9" -> 9
      [] tok = "10" -> 10

-----------------------------------------------------------------------------
(* Lines.                                                                  *)

RECURSIVE lstrip(_)
lstrip(line) ==
    IF line # <<>> /\ Head(line) = "" THEN lstrip(Tail(line)) ELSE line

RECURSIVE rstrip(_)
rstrip(line) ==
    IF line # <<>> /\ line[Len(line)] = ""
    THEN rstrip(SubSeq(line, 1, Len(line) - 1))
    ELSE line

strip(line) == rstrip(lstrip(line))

(* The maximal runs of non-whitespace of a line, in order.                 *)
Fields(line) == SelectSeq(line, LAMBDA t : t # "")

startswith(line, ch) ==
    line # <<>> /\ Head(line) \in (IF ch = "*" THEN {"*", "*c"} ELSE {"&", "&c"})

(* Section header patterns, applied to a stripped line.                    *)
MPS_NAME_SECTION_RE(line) == Len(line) >= 2 /\ line[1] = "NAME"

MPS_ROWS_SECTION_RE(line) == line = <<"ROWS">>

MPS_COLUMNS_SECTION_RE(line) == line = <<"COLUMNS">>

MPS_RHS_SECTION_RE(line) == line = <<"RHS">>

MPS_RANGES_SECTION_RE(line) == line = <<"RANGES">>

MPS_BOUNDS_SECTION_RE(line) == line = <<"BOUNDS">>

MPS_ENDATA_SECTION_RE(line) == line = <<"ENDATA">>

-----------------------------------------------------------------------------
(* intake_mps_file: the section scanner.                                   *)

(* The locals of intake_mps_file before the first line is read.  active_l  *)
(* names the list it aliases; raised and stop record how the loop ended.   *)
ScanInit ==
    [name |-> <<>>, rows_l |-> <<>>, columns_l |-> <<>>, rhs_l |-> <<>>,
     ranges_l |-> <<>>, bounds_l |-> <<>>, active_l |-> "None",
     has_rows |-> FALSE, has_columns |-> FALSE, has_rhs |-> FALSE,
     has_endata |-> FALSE, raised |-> "none"]

(* AppendActive dropping the line when no section is open.                 *)
AppendActive_DropOnNone(st, line) ==
    CASE st.active_l = "None" -> st
      [] st.active_l = "rows_l" ->
            [st EXCEPT !.rows_l = Append(@, line)]
      [] st.active_l = "columns_l" ->
            [st EXCEPT !.columns_l = Append(@, line)]
      [] st.active_l = "rhs_l" ->
            [st EXCEPT !.rhs_l = Append(@, line)]
      [] st.active_l = "ranges_l" ->
            [st EXCEPT !.ranges_l = Append(@, line)]
      [] st.active_l = "bounds_l" ->
            [st EXCEPT !.bounds_l = Append(@, line)]

(* active_l.append(line): raises on None, caught as NotMPSFileException.   *)
AppendActive(st, line) ==
    CASE st.active_l = "None" ->
            [st EXCEPT !.raised = "NotMPSFileException"]
      [] st.active_l = "rows_l" ->
            [st EXCEPT !.rows_l = Append(@, line)]
      [] st.active_l = "columns_l" ->
            [st EXCEPT !.columns_l = Append(@, line)]
      [] st.active_l = "rhs_l" ->
            [st EXCEPT !.rhs_l = Append(@, line)]
      [] st.active_l = "ranges_l" ->
            [st EXCEPT !.ranges_l = Append(@, line)]
      [] st.active_l = "bounds_l" ->
            [st EXCEPT !.bounds_l = Append(@, line)]

(* ScanLine taking a line that starts with & for any other line.           *)
ScanLine_NoOpRead(raw, st) ==
    LET line == strip(raw) IN
    IF line = <<>> \/ startswith(line, "*")
    THEN st
    ELSE IF MPS_NAME_SECTION_RE(line)
    THEN [st EXCEPT !.name = line]
    ELSE IF MPS_ROWS_SECTION_RE(line)
    THEN [st EXCEPT !.active_l = "rows_l", !.has_rows = TRUE]
    ELSE IF MPS_COLUMNS_SECTION_RE(line)
    THEN [st EXCEPT !.active_l = "columns_l", !.has_columns = TRUE]
    ELSE IF MPS_RHS_SECTION_RE(line)
    THEN [st EXCEPT !.active_l = "rhs_l", !.has_rhs = TRUE]
    ELSE IF MPS_RANGES_SECTION_RE(line)
    THEN [st EXCEPT !.active_l = "ranges_l"]
    ELSE IF MPS_BOUNDS_SECTION_RE(line)
    THEN [st EXCEPT !.active_l = "bounds_l"]
    ELSE IF MPS_ENDATA_SECTION_RE(line)
    THEN [st EXCEPT !.has_endata = TRUE]
    ELSE AppendActive(st, line)

(* One iteration of the loop over the lines of the file.                   *)
ScanLine(raw, st) ==
    LET line == strip(raw) IN
    IF line = <<>> \/ startswith(line, "*") \/ startswith(line, "&")
    THEN st
    ELSE IF MPS_NAME_SECTION_RE(line)
    THEN [st EXCEPT !.name = line]
    ELSE IF MPS_ROWS_SECTION_RE(line)
    THEN [st EXCEPT !.active_l = "rows_l", !.has_rows = TRUE]
    ELSE IF MPS_COLUMNS_SECTION_RE(line)
    THEN [st EXCEPT !.active_l = "columns_l", !.has_columns = TRUE]
    ELSE IF MPS_RHS_SECTION_RE(line)
    THEN [st EXCEPT !.active_l = "rhs_l", !.has_rhs = TRUE]
    ELSE IF MPS_RANGES_SECTION_RE(line)
    THEN [st EXCEPT !.active_l = "ranges_l"]
    ELSE IF MPS_BOUNDS_SECTION_RE(line)
    THEN [st EXCEPT !.active_l = "bounds_l"]
    ELSE IF MPS_ENDATA_SECTION_RE(line)
    THEN [st EXCEPT !.has_endata = TRUE]
    ELSE AppendActive(st, line)

(* The loop without its break: it ends at the end of the file or at the    *)
(* first raise.                                                            *)
RECURSIVE ScanAll(_, _, _)
ScanAll(lines, k, st) ==
    IF k > Len(lines) \/ st.raised # "none"
    THEN st
    ELSE ScanAll(lines, k + 1, ScanLine(lines[k], st))

(* The loop: it ends at the end of the file, at ENDATA (break) or at the   *)
(* first raise.                                                            *)
RECURSIVE ScanLoop(_, _, _)
ScanLoop(lines, k, st) ==
    IF k > Len(lines) \/ st.has_endata \/ st.raised # "none"
    THEN st
    ELSE ScanLoop(lines, k + 1, ScanLine(lines[k], st))

(* MarkerCheck without the test of has_endata.                             *)
MarkerCheck_NoENDATATest(st) ==
    IF st.name = <<>> THEN "NoNAMEException"
    ELSE IF ~st.has_rows THEN "NoROWSException"
    ELSE IF ~st.has_columns THEN "NoCOLUMNSException"
    ELSE IF ~st.has_rhs THEN "NoRHSException"
    ELSE IF st.rows_l = <<>> THEN "NoROWSDataException"
    ELSE IF st.columns_l = <<>> THEN "NoCOLUMNSDataException"
    ELSE "none"

(* MarkerCheck raising the ROWS kind for a missing COLUMNS header.         *)
MarkerCheck_WrongKind(st) ==
    IF st.name = <<>> THEN "NoNAMEException"
    ELSE IF ~st.has_rows THEN "NoROWSException"
    ELSE IF ~st.has_columns THEN "NoROWSException"
    ELSE IF ~st.has_rhs THEN "NoRHSException"
    ELSE IF ~st.has_endata THEN "NoENDATAException"
    ELSE IF st.rows_l = <<>> THEN "NoROWSDataException"
    ELSE IF st.columns_l = <<>> THEN "NoCOLUMNSDataException"
    ELSE "none"

(* MarkerCheck without the tests of the ROWS and COLUMNS buffers.          *)
MarkerCheck_NoDataTests(st) ==
    IF st.name = <<>> THEN "NoNAMEException"
    ELSE IF ~st.has_rows THEN "NoROWSException"
    ELSE IF ~st.has_columns THEN "NoCOLUMNSException"
    ELSE IF ~st.has_rhs THEN "NoRHSException"
    ELSE IF ~st.has_endata THEN "NoENDATAException"
    ELSE "none"

(* The chain of checks after the loop.                                     *)
MarkerCheck(st) ==
    IF st.name = <<>> THEN "NoNAMEException"
    ELSE IF ~st.has_rows THEN "NoROWSException"
    ELSE IF ~st.has_columns THEN "NoCOLUMNSException"
    ELSE IF ~st.has_rhs THEN "NoRHSException"
    ELSE IF ~st.has_endata THEN "NoENDATAException"
    ELSE IF st.rows_l = <<>> THEN "NoROWSDataException"
    ELSE IF st.columns_l = <<>> THEN "NoCOLUMNSDataException"
    ELSE "none"

NoData ==
    [name |-> <<>>, rows_data |-> <<>>, columns_data |-> <<>>,
     rhs_data |-> <<>>, ranges_data |-> <<>>, bounds_data |-> <<>>]

(* intake_mps_file reading on after ENDATA.                                *)
intake_mps_file_NoBreak(lines) ==
    LET st == ScanAll(lines, 1, ScanInit) IN
    IF st.raised # "none"
    THEN [raised |-> st.raised, data |-> NoData]
    ELSE IF MarkerCheck(st) # "none"
    THEN [raised |-> MarkerCheck(st), data |-> NoData]
    ELSE [raised |-> "none",
          data |-> [name |-> st.name, rows_data |-> st.rows_l,
                    columns_data |-> st.columns_l, rhs_data |-> st.rhs_l,
                    ranges_data |-> st.ranges_l, bounds_data |-> st.bounds_l]]

(* intake_mps_file running the checks of the markers before it lets the    *)
(* exception of the loop out.                                              *)
intake_mps_file_ChecksFirst(lines) ==
    LET st == ScanLoop(lines, 1, ScanInit) IN
    IF MarkerCheck(st) # "none"
    THEN [raised |-> MarkerCheck(st), data |-> NoData]
    ELSE IF st.raised # "none"
    THEN [raised |-> st.raised, data |-> NoData]
    ELSE [raised |-> "none",
          data |-> [name |-> st.name, rows_data |-> st.rows_l,
                    columns_data |-> st.columns_l, rhs_data |-> st.rhs_l,
                    ranges_data |-> st.ranges_l, bounds_data |-> st.bounds_l]]

(* Returns the raised exception ("none" on return) and the MPSSectionsData.*)
intake_mps_file(lines) ==
    LET st == ScanLoop(lines, 1, ScanInit) IN
    IF st.raised # "none"
    THEN [raised |-> st.raised, data |-> NoData]
    ELSE IF MarkerCheck(st) # "none"
    THEN [raised |-> MarkerCheck(st), data |-> NoData]
    ELSE [raised |-> "none",
          data |-> [name |-> st.name, rows_data |-> st.rows_l,
                    columns_data |-> st.columns_l, rhs_data |-> st.rhs_l,
                    ranges_data |-> st.ranges_l, bounds_data |-> st.bounds_l]]

(* process_NAME: group 1 of MPS_NAME_SECTION_RE, the text after NAME and   *)
(* the whitespace that follows it.                                         *)
process_NAME(data) == lstrip(Tail(data))

-----------------------------------------------------------------------------
(* process_ROWS.                                                           *)

MPS_ROWS_DATA_RE(line) ==
    Len(Fields(line)) = 2 /\ Fields(line)[1] \in SingleChar

(* RowsLine without the test of the row type.                              *)
RowsLine_NoTypeCheck(line, st) ==
    IF MPS_ROWS_DATA_RE(line)
    THEN [st EXCEPT
            !.rows_info = Put(@, Fields(line)[2],
                              [row_id |-> st.current_row_id,
                               row_type |-> Fields(line)[1]]),
            !.current_row_id = @ + 1]
    ELSE [st EXCEPT !.raised = "BadROWSDataException"]

RowsLine(line, st) ==
    IF MPS_ROWS_DATA_RE(line)
    THEN LET row_type == Fields(line)[1]
             row_name == Fields(line)[2]
         IN IF row_type \notin MPS_ROW_TYPES
            THEN [st EXCEPT !.raised = "UnknownROWSTypeException"]
            ELSE [st EXCEPT
                    !.rows_info = Put(@, row_name,
                                      [row_id |-> st.current_row_id,
                                       row_type |-> row_type]),
                    !.current_row_id = @ + 1]
    ELSE [st EXCEPT !.raised = "BadROWSDataException"]

RECURSIVE RowsLoop(_, _, _)
RowsLoop(data, k, st) ==
    IF k > Len(data) \/ st.raised # "none"
    THEN st
    ELSE RowsLoop(data, k + 1, RowsLine(data[k], st))

process_ROWS(data) ==
    RowsLoop(data, 1,
             [rows_info |-> EmptyDict, current_row_id |-> 0,
              raised |-> "none"])

-----------------------------------------------------------------------------
(* process_COLUMNS.                                                        *)

MPS_COLUMNS_2_DATA_RE(line) ==
    /\ Len(Fields(line)) = 5
    /\ Fields(line)[3] \in NumChars
    /\ Fields(line)[5] \in NumChars

(* MPS_COLUMNS_1_DATA_RE without the anchor at the end of the line.        *)
MPS_COLUMNS_1_DATA_RE_Prefix(line) ==
    /\ Len(Fields(line)) >= 3
    /\ Fields(line)[3] \in NumChars

MPS_COLUMNS_1_DATA_RE(line) ==
    /\ Len(Fields(line)) = 3
    /\ Fields(line)[3] \in NumChars

(* AddColumn leaving the counter of column ids alone.                      *)
AddColumn_NoIncrement(st, column_name) ==
    IF column_name \in DOMAIN st.columns_dict
    THEN st
    ELSE [st EXCEPT
            !.columns_dict = Put(@, column_name, st.current_column_id)]

(* columns_dict after "if column_name not in columns_dict: ..."            *)
AddColumn(st, column_name) ==
    IF column_name \in DOMAIN st.columns_dict
    THEN st
    ELSE [st EXCEPT
            !.columns_dict = Put(@, column_name, st.current_column_id),
            !.current_column_id = @ + 1]

(* StoreElement storing the value whatever it is.                          *)
StoreElement_StoreZero(st, rows, row_name, column_name, text) ==
    IF st.raised # "none" THEN st
    ELSE IF float_raises(text) THEN [st EXCEPT !.raised = "ValueError"]
    ELSE [st EXCEPT
            !.elements_dict =
                Put(@, <<rows[row_name].row_id,
                         st.columns_dict[column_name]>>, float(text))]

(* value = float(text); if value != 0.0: elements_dict[...] = value        *)
StoreElement(st, rows, row_name, column_name, text) ==
    IF st.raised # "none" THEN st
    ELSE IF float_raises(text) THEN [st EXCEPT !.raised = "ValueError"]
    ELSE IF float(text) # 0
    THEN [st EXCEPT
            !.elements_dict =
                Put(@, <<rows[row_name].row_id,
                         st.columns_dict[column_name]>>, float(text))]
    ELSE st

ColumnsLine(line, st, rows) ==
    LET g == Fields(line) IN
    IF MPS_COLUMNS_2_DATA_RE(line)
    THEN IF g[2] \notin DOMAIN rows
         THEN [st EXCEPT !.raised = "UnknownRowException"]
         ELSE IF g[4] \notin DOMAIN rows
         THEN [st EXCEPT !.raised = "UnknownRowException"]
         ELSE StoreElement(
                  StoreElement(AddColumn(st, g[1]), rows, g[2], g[1], g[3]),
                  rows, g[4], g[1], g[5])
    ELSE IF MPS_COLUMNS_1_DATA_RE(line)
    THEN IF g[2] \notin DOMAIN rows
         THEN [st EXCEPT !.raised = "UnknownRowException"]
         ELSE StoreElement(AddColumn(st, g[1]), rows, g[2], g[1], g[3])
    ELSE [st EXCEPT !.raised = "BadCOLUMNSDataException"]

RECURSIVE ColumnsLoop(_, _, _, _)
ColumnsLoop(data, k, st, rows) ==
    IF k > Len(data) \/ st.raised # "none"
    THEN st
    ELSE ColumnsLoop(data, k + 1, ColumnsLine(data[k], st, rows), rows)

process_COLUMNS(data, rows) ==
    ColumnsLoop(data, 1,
                [columns_dict |-> EmptyDict, elements_dict |-> EmptyDict,
                 current_column_id |-> 0, raised |-> "none"],
                rows)

-----------------------------------------------------------------------------
(* process_RHS and process_RANGES.  The loop state holds the dictionary,   *)
(* the vector name ("" while unset), whether the loop was left by break,   *)
(* and the exception raised.                                               *)

VectorInit == [dict |-> EmptyDict, name |-> "", stop |-> FALSE,
               raised |-> "none"]

(* VectorName going on with the line when the token differs.               *)
VectorName_NoBreak(st, group) ==
    IF st.name = "" THEN [st EXCEPT !.name = group]
    ELSE st

(* "if not x_name: x_name = group ... elif x_name != group: break"         *)
VectorName(st, group) ==
    IF st.name = "" THEN [st EXCEPT !.name = group]
    ELSE IF st.name # group THEN [st EXCEPT !.stop = TRUE]
    ELSE st

(* StorePairs2 without the lookup of the second row.                       *)
StorePairs2_OneLookup(st, rows, row_1_name, value_1, row_2_name, value_2) ==
    IF st.stop THEN st
    ELSE IF row_1_name \notin DOMAIN rows
    THEN [st EXCEPT !.raised = "UnknownRowException"]
    ELSE IF float_raises(value_1) \/ float_raises(value_2)
    THEN [st EXCEPT !.raised = "ValueError"]
    ELSE [st EXCEPT !.dict = Put(Put(@, row_1_name, float(value_1)),
                                 row_2_name, float(value_2))]

(* Two (row, value) pairs: both rows are looked up, then both values are   *)
(* converted and stored.                                                   *)
StorePairs2(st, rows, row_1_name, value_1, row_2_name, value_2) ==
    IF st.stop THEN st
    ELSE IF row_1_name \notin DOMAIN rows
    THEN [st EXCEPT !.raised = "UnknownRowException"]
    ELSE IF row_2_name \notin DOMAIN rows
    THEN [st EXCEPT !.raised = "UnknownRowException"]
    ELSE IF float_raises(value_1) \/ float_raises(value_2)
    THEN [st EXCEPT !.raised = "ValueError"]
    ELSE [st EXCEPT !.dict = Put(Put(@, row_1_name, float(value_1)),
                                 row_2_name, float(value_2))]

(* StorePair1 without the lookup of the row.                               *)
StorePair1_NoRowCheck(st, rows, row_name, value) ==
    IF st.stop THEN st
    ELSE IF float_raises(value)
    THEN [st EXCEPT !.raised = "ValueError"]
    ELSE [st EXCEPT !.dict = Put(@, row_name, float(value))]

StorePair1(st, rows, row_name, value) ==
    IF st.stop THEN st
    ELSE IF row_name \notin DOMAIN rows
    THEN [st EXCEPT !.raised = "UnknownRowException"]
    ELSE IF float_raises(value)
    THEN [st EXCEPT !.raised = "ValueError"]
    ELSE [st EXCEPT !.dict = Put(@, row_name, float(value))]

MPS_RHS_2_DATA_RE(line) ==
    /\ Len(Fields(line)) = 5
    /\ Fields(line)[3] \in NumChars
    /\ Fields(line)[5] \in NumChars

MPS_RHS_1_DATA_RE(line) ==
    /\ Len(Fields(line)) = 3
    /\ Fields(line)[3] \in NumChars

MPS_RHS_2_DATA_EXTRA_RE(line) ==
    /\ Len(Fields(line)) = 4
    /\ Fields(line)[2] \in NumChars
    /\ Fields(line)[4] \in NumChars

MPS_RHS_1_DATA_EXTRA_RE(line) ==
    /\ Len(Fields(line)) = 2
    /\ Fields(line)[2] \in NumChars

RHSLine(line, st, rows) ==
    LET g == Fields(line) IN
    IF MPS_RHS_2_DATA_RE(line)
    THEN StorePairs2(VectorName(st, g[1]), rows, g[2], g[3], g[4], g[5])
    ELSE IF MPS_RHS_1_DATA_RE(line)
    THEN StorePair1(VectorName(st, g[1]), rows, g[2], g[3])
    ELSE IF MPS_RHS_2_DATA_EXTRA_RE(line)
    THEN StorePairs2(st, rows, g[1], g[2], g[3], g[4])
    ELSE IF MPS_RHS_1_DATA_EXTRA_RE(line)
    THEN StorePair1(st, rows, g[1], g[2])
    ELSE [st EXCEPT !.raised = "BadRHSDataException"]

RECURSIVE RHSLoop(_, _, _, _)
RHSLoop(data, k, st, rows) ==
    IF k > Len(data) \/ st.stop \/ st.raised # "none"
    THEN st
    ELSE RHSLoop(data, k + 1, RHSLine(data[k], st, rows), rows)

process_RHS(data, rows) == RHSLoop(data, 1, VectorInit, rows)

(* The first group of the RANGES patterns may be empty, but a stripped     *)
(* line starts with a non-blank character, so it is the first field.       *)
MPS_RANGES_2_DATA_RE(line) ==
    /\ Len(Fields(line)) = 5
    /\ Fields(line)[3] \in NumChars
    /\ Fields(line)[5] \in NumChars

MPS_RANGES_1_DATA_RE(line) ==
    /\ Len(Fields(line)) = 3
    /\ Fields(line)[3] \in NumChars

(* RANGESLine raising the RHS kind for a line it cannot parse.             *)
RANGESLine_RHSKind(line, st, rows) ==
    LET g == Fields(line) IN
    IF MPS_RANGES_2_DATA_RE(line)
    THEN StorePairs2(VectorName(st, g[1]), rows, g[2], g[3], g[4], g[5])
    ELSE IF MPS_RANGES_1_DATA_RE(line)
    THEN StorePair1(VectorName(st, g[1]), rows, g[2], g[3])
    ELSE [st EXCEPT !.raised = "BadRHSDataException"]

RANGESLine(line, st, rows) ==
    LET g == Fields(line) IN
    IF MPS_RANGES_2_DATA_RE(line)
    THEN StorePairs2(VectorName(st, g[1]), rows, g[2], g[3], g[4], g[5])
    ELSE IF MPS_RANGES_1_DATA_RE(line)
    THEN StorePair1(VectorName(st, g[1]), rows, g[2], g[3])
    ELSE [st EXCEPT !.raised = "BadRANGESDataException"]

RECURSIVE RANGESLoop(_, _, _, _)
RANGESLoop(data, k, st, rows) ==
    IF k > Len(data) \/ st.stop \/ st.raised # "none"
    THEN st
    ELSE RANGESLoop(data, k + 1, RANGESLine(data[k], st, rows), rows)

process_RANGES(data, rows) == RANGESLoop(data, 1, VectorInit, rows)

-----------------------------------------------------------------------------
(* process_BOUNDS.                                                         *)

(* The pattern matches four fields, or (its second group may be empty)     *)
(* three fields when at least two whitespace characters follow the first   *)
(* one: the second group is then the empty string.                         *)
MPS_BOUNDS_DATA_RE(line) ==
    \/ Len(Fields(line)) = 4 /\ Fields(line)[4] \in NumChars
    \/ Len(Fields(line)) = 3 /\ line[2] = "" /\ Fields(line)[3] \in NumChars

BoundsGroups(line) ==
    IF Len(Fields(line)) = 4
    THEN Fields(line)
    ELSE <<Fields(line)[1], "", Fields(line)[2], Fields(line)[3]>>

(* AppendBound passing over an undeclared column instead of raising.       *)
AppendBound_SkipUnknown(st, columns, bound_type, column_name, value) ==
    IF st.stop THEN st
    ELSE IF column_name \notin DOMAIN columns
    THEN st
    ELSE IF float_raises(value)
    THEN [st EXCEPT !.raised = "ValueError"]
    ELSE [st EXCEPT
            !.dict =
                Put(@, column_name,
                    Append(IF column_name \in DOMAIN st.dict
                           THEN st.dict[column_name] ELSE <<>>,
                           [bound_type |-> bound_type,
                            value |-> float(value)]))]

(* AppendBound replacing the entries of the column by the new one.         *)
AppendBound_Replace(st, columns, bound_type, column_name, value) ==
    IF st.stop THEN st
    ELSE IF column_name \notin DOMAIN columns
    THEN [st EXCEPT !.raised = "UnknownColumnException"]
    ELSE IF float_raises(value)
    THEN [st EXCEPT !.raised = "ValueError"]
    ELSE [st EXCEPT
            !.dict =
                Put(@, column_name,
                    <<[bound_type |-> bound_type, value |-> float(value)]>>)]

(* The column lookup, then                                                 *)
(* bounds_dict.setdefault(column_name, []); ....append(BoundData(...))     *)
AppendBound(st, columns, bound_type, column_name, value) ==
    IF st.stop THEN st
    ELSE IF column_name \notin DOMAIN columns
    THEN [st EXCEPT !.raised = "UnknownColumnException"]
    ELSE IF float_raises(value)
    THEN [st EXCEPT !.raised = "ValueError"]
    ELSE [st EXCEPT
            !.dict =
                Put(@, column_name,
                    Append(IF column_name \in DOMAIN st.dict
                           THEN st.dict[column_name] ELSE <<>>,
                           [bound_type |-> bound_type,
                            value |-> float(value)]))]

(* BOUNDSLine comparing the vector name before it tests the bound type.    *)
BOUNDSLine_TypeAfterVector(line, st, columns) ==
    IF MPS_BOUNDS_DATA_RE(line)
    THEN LET g == BoundsGroups(line) IN
         IF VectorName(st, g[2]).stop
         THEN VectorName(st, g[2])
         ELSE IF g[1] \notin MPS_BOUNDS_TYPES
         THEN [st EXCEPT !.raised = "UnknownBOUNDSTypeException"]
         ELSE AppendBound(VectorName(st, g[2]), columns, g[1], g[3], g[4])
    ELSE [st EXCEPT !.raised = "BadBOUNDSDataException"]

BOUNDSLine(line, st, columns) ==
    IF MPS_BOUNDS_DATA_RE(line)
    THEN LET g == BoundsGroups(line) IN
         IF g[1] \notin MPS_BOUNDS_TYPES
         THEN [st EXCEPT !.raised = "UnknownBOUNDSTypeException"]
         ELSE AppendBound(VectorName(st, g[2]), columns, g[1], g[3], g[4])
    ELSE [st EXCEPT !.raised = "BadBOUNDSDataException"]

RECURSIVE BOUNDSLoop(_, _, _, _)
BOUNDSLoop(data, k, st, columns) ==
    IF k > Len(data) \/ st.stop \/ st.raised # "none"
    THEN st
    ELSE BOUNDSLoop(data, k + 1, BOUNDSLine(data[k], st, columns), columns)

process_BOUNDS(data, columns) == BOUNDSLoop(data, 1, VectorInit, columns)

-----------------------------------------------------------------------------
(* CMPS.__init__ as a state machine over one document.                     *)

NoAttributes == EmptyDict

(* The state at the entry of CMPS.__init__ for the file lines d.           *)
Start(d) ==
    /\ doc = d
    /\ pc = "intake"
    /\ mps_data = NoData
    /\ problem_name = <<>>
    /\ rows_dict = EmptyDict
    /\ columns_dict = EmptyDict
    /\ elements_dict = EmptyDict
    /\ rhs_dict = EmptyDict
    /\ ranges_dict = EmptyDict
    /\ bounds_dict = EmptyDict
    /\ self = NoAttributes
    /\ raised = "none"

(* An exception leaves __init__: nothing else changes.                     *)
Raise(kind) ==
    /\ raised' = kind
    /\ pc' = "failed"

Intake ==
    /\ pc = "intake"
    /\ LET r == intake_mps_file(doc) IN
       IF r.raised # "none"
       THEN /\ Raise(r.raised)
            /\ UNCHANGED mps_data
       ELSE /\ mps_data' = r.data
            /\ pc' = "NAME"
            /\ UNCHANGED raised
    /\ UNCHANGED <<doc, problem_name, rows_dict, columns_dict, elements_dict,
                   rhs_dict, ranges_dict, bounds_dict, self>>

ProcNAME ==
    /\ pc = "NAME"
    /\ problem_name' = process_NAME(mps_data.name)
    /\ pc' = "ROWS"
    /\ UNCHANGED <<doc, mps_data, rows_dict, columns_dict, elements_dict,
                   rhs_dict, ranges_dict, bounds_dict, self, raised>>

(* ProcROWS numbering the rows from either end.                            *)
ProcROWS_EitherNumbering ==
    /\ pc = "ROWS"
    /\ LET r == process_ROWS(mps_data.rows_data) IN
       IF r.raised # "none"
       THEN /\ Raise(r.raised)
            /\ UNCHANGED rows_dict
       ELSE /\ rows_dict' \in
                  {r.rows_info,
                   [n \in DOMAIN r.rows_info |->
                       [row_id |-> r.current_row_id - 1
                                      - r.rows_info[n].row_id,
                        row_type |-> r.rows_info[n].row_type]]}
            /\ pc' = "COLUMNS"
            /\ UNCHANGED raised
    /\ UNCHANGED <<doc, mps_data, problem_name, columns_dict, elements_dict,
                   rhs_dict, ranges_dict, bounds_dict, self>>

(* ProcROWS assigning self._rows as soon as process_ROWS has returned.     *)
ProcROWS_PublishEarly ==
    /\ pc = "ROWS"
    /\ LET r == process_ROWS(mps_data.rows_data) IN
       IF r.raised # "none"
       THEN /\ Raise(r.raised)
            /\ UNCHANGED <<rows_dict, self>>
       ELSE /\ rows_dict' = r.rows_info
            /\ self' = [rows |-> r.rows_info]
            /\ pc' = "COLUMNS"
            /\ UNCHANGED raised
    /\ UNCHANGED <<doc, mps_data, problem_name, columns_dict, elements_dict,
                   rhs_dict, ranges_dict, bounds_dict>>

ProcROWS ==
    /\ pc = "ROWS"
    /\ LET r == process_ROWS(mps_data.rows_data) IN
       IF r.raised # "none"
       THEN /\ Raise(r.raised)
            /\ UNCHANGED rows_dict
       ELSE /\ rows_dict' = r.rows_info
            /\ pc' = "COLUMNS"
            /\ UNCHANGED raised
    /\ UNCHANGED <<doc, mps_data, problem_name, columns_dict, elements_dict,
                   rhs_dict, ranges_dict, bounds_dict, self>>

ProcCOLUMNS ==
    /\ pc = "COLUMNS"
    /\ LET r == process_COLUMNS(mps_data.columns_data, rows_dict) IN
       IF r.raised # "none"
       THEN /\ Raise(r.raised)
            /\ UNCHANGED <<columns_dict, elements_dict>>
       ELSE /\ columns_dict' = r.columns_dict
            /\ elements_dict' = r.elements_dict
            /\ pc' = "RHS"
            /\ UNCHANGED raised
    /\ UNCHANGED <<doc, mps_data, problem_name, rows_dict, rhs_dict,
                   ranges_dict, bounds_dict, self>>

ProcRHS ==
    /\ pc = "RHS"
    /\ IF mps_data.rhs_data = <<>>
       THEN /\ pc' = "RANGES"
            /\ UNCHANGED <<rhs_dict, raised>>
       ELSE LET r == process_RHS(mps_data.rhs_data, rows_dict) IN
            IF r.raised # "none"
            THEN /\ Raise(r.raised)
                 /\ UNCHANGED rhs_dict
            ELSE /\ rhs_dict' = r.dict
                 /\ pc' = "RANGES"
                 /\ UNCHANGED raised
    /\ UNCHANGED <<doc, mps_data, problem_name, rows_dict, columns_dict,
                   elements_dict, ranges_dict, bounds_dict, self>>

ProcRANGES ==
    /\ pc = "RANGES"
    /\ IF mps_data.ranges_data = <<>>
       THEN /\ pc' = "BOUNDS"
            /\ UNCHANGED <<ranges_dict, raised>>
       ELSE LET r == process_RANGES(mps_data.ranges_data, rows_dict) IN
            IF r.raised # "none"
            THEN /\ Raise(r.raised)
                 /\ UNCHANGED ranges_dict
            ELSE /\ ranges_dict' = r.dict
                 /\ pc' = "BOUNDS"
                 /\ UNCHANGED raised
    /\ UNCHANGED <<doc, mps_data, problem_name, rows_dict, columns_dict,
                   elements_dict, rhs_dict, bounds_dict, self>>

ProcBOUNDS ==
    /\ pc = "BOUNDS"
    /\ IF mps_data.bounds_data = <<>>
       THEN /\ pc' = "publish"
            /\ UNCHANGED <<bounds_dict, raised>>
       ELSE LET r == process_BOUNDS(mps_data.bounds_data, columns_dict) IN
            IF r.raised # "none"
            THEN /\ Raise(r.raised)
                 /\ UNCHANGED bounds_dict
            ELSE /\ bounds_dict' = r.dict
                 /\ pc' = "publish"
                 /\ UNCHANGED raised
    /\ UNCHANGED <<doc, mps_data, problem_name, rows_dict, columns_dict,
                   elements_dict, rhs_dict, ranges_dict, self>>

(* self._name = ... ; self._bounds = MappingProxyType(bounds_dict)         *)
Publish ==
    /\ pc = "publish"
    /\ self' = [name |-> problem_name, rows |-> rows_dict,
                columns |-> columns_dict, elements |-> elements_dict,
                rhs |-> rhs_dict, ranges |-> ranges_dict,
                bounds |-> bounds_dict]
    /\ pc' = "done"
    /\ UNCHANGED <<doc, mps_data, problem_name, rows_dict, columns_dict,
                   elements_dict, rhs_dict, ranges_dict, bounds_dict, raised>>

Next ==
    \/ Intake
    \/ ProcNAME
    \/ ProcROWS
    \/ ProcCOLUMNS
    \/ ProcRHS
    \/ ProcRANGES
    \/ ProcBOUNDS
    \/ Publish

(* The caller of a returned object.  Its views are MappingProxyType        *)
(* objects over the dictionaries of the call: item assignment and deletion *)
(* on a view raise TypeError, and the RowData, ElementData and BoundData   *)
(* values are frozen.                                                      *)
CallerWritesView ==
    /\ pc = "done"
    /\ pc' = "used"
    /\ UNCHANGED <<doc, mps_data, problem_name, rows_dict, columns_dict,
                   elements_dict, rhs_dict, ranges_dict, bounds_dict, self,
                   raised>>

(* The values of the bounds view are the lists process_BOUNDS appended to: *)
(* the caller may append to the list of a column, or clear it.             *)
CallerWritesBoundList ==
    /\ pc = "done"
    /\ \E c \in DOMAIN self.bounds :
          \E entries \in {<<>>,
                          Append(self.bounds[c],
                                 [bound_type |-> "FR", value |-> 0])} :
              self' = [self EXCEPT !.bounds[c] = entries]
    /\ pc' = "used"
    /\ UNCHANGED <<doc, mps_data, problem_name, rows_dict, columns_dict,
                   elements_dict, rhs_dict, ranges_dict, bounds_dict, raised>>

NextCaller ==
    \/ Next
    \/ CallerWritesView
    \/ CallerWritesBoundList

(* The same constructor as a function of the state of one call: the state *)
(* of a call is the record of its file lines, its position, its locals and *)
(* its attributes.                                                         *)
Call ==
    [doc |-> doc, pc |-> pc, mps_data |-> mps_data,
     problem_name |-> problem_name, rows_dict |-> rows_dict,
     columns_dict |-> columns_dict, elements_dict |-> elements_dict,
     rhs_dict |-> rhs_dict, ranges_dict |-> ranges_dict,
     bounds_dict |-> bounds_dict, self |-> self, raised |-> raised]

StartCall(d) ==
    [doc |-> d, pc |-> "intake", mps_data |-> NoData, problem_name |-> <<>>,
     rows_dict |-> EmptyDict, columns_dict |-> EmptyDict,
     elements_dict |-> EmptyDict, rhs_dict |-> EmptyDict,
     ranges_dict |-> EmptyDict, bounds_dict |-> EmptyDict,
     self |-> NoAttributes, raised |-> "none"]

RaiseIn(s, kind) == [s EXCEPT !.raised = kind, !.pc = "failed"]

(* The next statement of CMPS.__init__ in the call state s.                *)
CallStep(s) ==
    CASE s.pc = "intake" ->
            LET r == intake_mps_file(s.doc) IN
            IF r.raised # "none" THEN RaiseIn(s, r.raised)
            ELSE [s EXCEPT !.mps_data = r.data, !.pc = "NAME"]
      [] s.pc = "NAME" ->
            [s EXCEPT !.problem_name = process_NAME(s.mps_data.name),
                      !.pc = "ROWS"]
      [] s.pc = "ROWS" ->
            LET r == process_ROWS(s.mps_data.rows_data) IN
            IF r.raised # "none" THEN RaiseIn(s, r.raised)
            ELSE [s EXCEPT !.rows_dict = r.rows_info, !.pc = "COLUMNS"]
      [] s.pc = "COLUMNS" ->
            LET r == process_COLUMNS(s.mps_data.columns_data, s.rows_dict) IN
            IF r.raised # "none" THEN RaiseIn(s, r.raised)
            ELSE [s EXCEPT !.columns_dict = r.columns_dict,
                           !.elements_dict = r.elements_dict, !.pc = "RHS"]
      [] s.pc = "RHS" ->
            LET r == process_RHS(s.mps_data.rhs_data, s.rows_dict) IN
            IF s.mps_data.rhs_data = <<>> THEN [s EXCEPT !.pc = "RANGES"]
            ELSE IF r.raised # "none" THEN RaiseIn(s, r.raised)
            ELSE [s EXCEPT !.rhs_dict = r.dict, !.pc = "RANGES"]
      [] s.pc = "RANGES" ->
            LET r == process_RANGES(s.mps_data.ranges_data, s.rows_dict) IN
            IF s.mps_data.ranges_data = <<>> THEN [s EXCEPT !.pc = "BOUNDS"]
            ELSE IF r.raised # "none" THEN RaiseIn(s, r.raised)
            ELSE [s EXCEPT !.ranges_dict = r.dict, !.pc = "BOUNDS"]
      [] s.pc = "BOUNDS" ->
            LET r == process_BOUNDS(s.mps_data.bounds_data, s.columns_dict) IN
            IF s.mps_data.bounds_data = <<>> THEN [s EXCEPT !.pc = "publish"]
            ELSE IF r.raised # "none" THEN RaiseIn(s, r.raised)
            ELSE [s EXCEPT !.bounds_dict = r.dict, !.pc = "publish"]
      [] s.pc = "publish" ->
            [s EXCEPT !.self = [name |-> s.problem_name, rows |-> s.rows_dict,
                                columns |-> s.columns_dict,
                                elements |-> s.elements_dict,
                                rhs |-> s.rhs_dict, ranges |-> s.ranges_dict,
                                bounds |-> s.bounds_dict],
                      !.pc = "done"]
      [] OTHER -> s

(* The call run to its end, and what the caller gets: the exception or the *)
(* attributes of the object.                                               *)
RECURSIVE RunCall(_)
RunCall(s) ==
    IF s.pc \in {"done", "failed"} THEN s ELSE RunCall(CallStep(s))

Outcome(s) == [raised |-> s.raised, model |-> s.self]

CMPS(lines) == Outcome(RunCall(StartCall(lines)))

(* Two calls of the constructor whose statements interleave: in SpecPair   *)
(* every variable holds the pair of its values in call 1 and in call 2.    *)
(* All that a call writes is a local of CMPS.__init__, of intake_mps_file  *)
(* or of a processor, or an attribute of its own object.                   *)
CallOf(c) ==
    [doc |-> doc[c], pc |-> pc[c], mps_data |-> mps_data[c],
     problem_name |-> problem_name[c], rows_dict |-> rows_dict[c],
     columns_dict |-> columns_dict[c], elements_dict |-> elements_dict[c],
     rhs_dict |-> rhs_dict[c], ranges_dict |-> ranges_dict[c],
     bounds_dict |-> bounds_dict[c], self |-> self[c], raised |-> raised[c]]

StartPair(d1, d2) ==
    /\ doc = <<d1, d2>>
    /\ pc = <<"intake", "intake">>
    /\ mps_data = <<NoData, NoData>>
    /\ problem_name = <<<<>>, <<>>>>
    /\ rows_dict = <<EmptyDict, EmptyDict>>
    /\ columns_dict = <<EmptyDict, EmptyDict>>
    /\ elements_dict = <<EmptyDict, EmptyDict>>
    /\ rhs_dict = <<EmptyDict, EmptyDict>>
    /\ ranges_dict = <<EmptyDict, EmptyDict>>
    /\ bounds_dict = <<EmptyDict, EmptyDict>>
    /\ self = <<NoAttributes, NoAttributes>>
    /\ raised = <<"none", "none">>

(* PairStep with one table of rows for both calls.                         *)
PairStep_SharedRows(c) ==
    /\ pc[c] \notin {"done", "failed"}
    /\ LET n == CallStep(CallOf(c)) IN
       /\ doc' = [doc EXCEPT ![c] = n.doc]
       /\ pc' = [pc EXCEPT ![c] = n.pc]
       /\ mps_data' = [mps_data EXCEPT ![c] = n.mps_data]
       /\ problem_name' = [problem_name EXCEPT ![c] = n.problem_name]
       /\ rows_dict' = <<n.rows_dict, n.rows_dict>>
       /\ columns_dict' = [columns_dict EXCEPT ![c] = n.columns_dict]
       /\ elements_dict' = [elements_dict EXCEPT ![c] = n.elements_dict]
       /\ rhs_dict' = [rhs_dict EXCEPT ![c] = n.rhs_dict]
       /\ ranges_dict' = [ranges_dict EXCEPT ![c] = n.ranges_dict]
       /\ bounds_dict' = [bounds_dict EXCEPT ![c] = n.bounds_dict]
       /\ self' = [self EXCEPT ![c] = n.self]
       /\ raised' = [raised EXCEPT ![c] = n.raised]

(* Call c executes its next statement.                                     *)
PairStep(c) ==
    /\ pc[c] \notin {"done", "failed"}
    /\ LET n == CallStep(CallOf(c)) IN
       /\ doc' = [doc EXCEPT ![c] = n.doc]
       /\ pc' = [pc EXCEPT ![c] = n.pc]
       /\ mps_data' = [mps_data EXCEPT ![c] = n.mps_data]
       /\ problem_name' = [problem_name EXCEPT ![c] = n.problem_name]
       /\ rows_dict' = [rows_dict EXCEPT ![c] = n.rows_dict]
       /\ columns_dict' = [columns_dict EXCEPT ![c] = n.columns_dict]
       /\ elements_dict' = [elements_dict EXCEPT ![c] = n.elements_dict]
       /\ rhs_dict' = [rhs_dict EXCEPT ![c] = n.rhs_dict]
       /\ ranges_dict' = [ranges_dict EXCEPT ![c] = n.ranges_dict]
       /\ bounds_dict' = [bounds_dict EXCEPT ![c] = n.bounds_dict]
       /\ self' = [self EXCEPT ![c] = n.self]
       /\ raised' = [raised EXCEPT ![c] = n.raised]

NextPair ==
    \/ PairStep(1)
    \/ PairStep(2)

-----------------------------------------------------------------------------
(* Documents.                                                              *)

Header(k) == <<k>>

NameLine == <<"NAME", "", "P">>

StdRows == << <<"", "N", "R1">>, <<"", "L", "R2">> >>

StdColumns == << <<"", "X", "R1", "3">> >>

StdRHS == << <<"", "RHS", "R1", "5">> >>

StdRANGES == << <<"", "RNG", "R2", "6">> >>

StdBOUNDS == << <<"", "UP", "BND", "X", "4">> >>

(* A document with its sections in the standard order.                     *)
Frame(rows, columns, rhs, ranges, bounds) ==
    <<NameLine, Header("ROWS")>> \o rows \o <<Header("COLUMNS")>> \o columns
    \o <<Header("RHS")>> \o rhs \o <<Header("RANGES")>> \o ranges
    \o <<Header("BOUNDS")>> \o bounds \o <<Header("ENDATA")>>

StdDoc == Frame(StdRows, StdColumns, StdRHS, StdRANGES, StdBOUNDS)

(* All sequences over S of length lo..hi.                                  *)
SeqsOf(S, lo, hi) == UNION {[1..n -> S] : n \in lo..hi}

RECURSIVE Flatten(_)
Flatten(ss) == IF ss = <<>> THEN <<>> ELSE Head(ss) \o Flatten(Tail(ss))

(* Documents made of whole sections, each at most once, in any order, and  *)
(* possibly one stray data line.                                           *)
BlockKinds == {"NAME", "ROWS", "COLUMNS", "RHS", "RANGES", "BOUNDS",
               "ENDATA", "DATA"}

Block(kind) ==
    CASE kind = "NAME" -> <<NameLine>>
      [] kind = "ROWS" -> <<Header("ROWS")>> \o StdRows
      [] kind = "COLUMNS" -> <<Header("COLUMNS")>> \o StdColumns
      [] kind = "RHS" -> <<Header("RHS")>> \o StdRHS
      [] kind = "RANGES" -> <<Header("RANGES")>> \o StdRANGES
      [] kind = "BOUNDS" -> <<Header("BOUNDS")>> \o StdBOUNDS
      [] kind = "ENDATA" -> <<Header("ENDATA")>>
      [] kind = "DATA" -> << <<"", "RHS", "R2", "4">> >>

RECURSIVE Arrangements(_)
Arrangements(n) ==
    IF n = 0 THEN {<<>>}
    ELSE LET A == Arrangements(n - 1) IN
         A \cup {Append(a, k) : <<a, k>> \in
                    {p \in A \X BlockKinds :
                        Len(p[1]) = n - 1 /\ p[2] \notin Range(p[1])}}

OrderDocs ==
    {Flatten([k \in DOMAIN a |-> Block(a[k])]) : a \in Arrangements(MaxBlocks)}

(* Documents made of the mandatory sections and a stray data line, in any *)
(* order, the ROWS and the COLUMNS section with or without their data.     *)
EmptyKinds == {"NAME", "ROWS", "COLUMNS", "RHS", "ENDATA", "DATA"}

BlockOrEmpty(kind, empty) ==
    IF kind \in empty THEN <<Header(kind)>> ELSE Block(kind)

RECURSIVE ArrangementsOf(_, _)
ArrangementsOf(K, n) ==
    IF n = 0 THEN {<<>>}
    ELSE LET A == ArrangementsOf(K, n - 1) IN
         A \cup {Append(p[1], p[2]) : p \in
                    {q \in A \X K :
                        Len(q[1]) = n - 1 /\ q[2] \notin Range(q[1])}}

EmptyDocs ==
    {Flatten([k \in DOMAIN a |-> BlockOrEmpty(a[k], e)]) :
        a \in ArrangementsOf(EmptyKinds, MaxEmptyBlocks),
        e \in SUBSET {"ROWS", "COLUMNS"}}

(* Documents without any section header, and the same lines put in front   *)
(* of the standard document.                                               *)
StrayLines == {<<>>, <<"", "">>, <<"*c", "NAME", "P">>, <<"&">>, <<"", "junk">>}

StrayDocs ==
    LET S == SeqsOf(StrayLines, 0, MaxStray) IN S \cup {s \o StdDoc : s \in S}

RowLines == {<<"", "N", "R1">>, <<"", "L", "R2">>, <<"", "G", "R1">>,
             <<"", "E", "R3">>, <<"", "Q", "R4">>, <<"", "NL", "R5">>,
             <<"", "n", "R6">>}

RowsDocs ==
    {Frame(r, StdColumns, StdRHS, StdRANGES, StdBOUNDS) :
        r \in SeqsOf(RowLines, 1, MaxRowLines)}

ColLines ==
    {<<"", c, r, v>> : c \in {"X", "Y"}, r \in {"R1", "R2"}, v \in {"0", "3"}}
    \cup {<<"", c, "R1", v, r, w>> :
            c \in {"X", "Y"}, r \in {"R1", "R2"}, v \in {"0", "3"},
            w \in {"0", "3"}}
    \cup {<<"", "Y", "RU", "3">>, <<"", "Y", "R1", "3", "RU", "3">>,
          <<"", "X", "R1", "e">>, <<"", "X", "R1", "3", "R2", ".">>,
          <<"", "X", "R1">>}

ColumnsDocs ==
    {Frame(StdRows, c, StdRHS, StdRANGES, StdBOUNDS) :
        c \in SeqsOf(ColLines, 1, MaxColLines)}

RhsLines ==
    {<<"", "RHS", "R1", "5">>, <<"", "RHS", "R1", "5", "R2", "6">>,
     <<"", "R2", "4">>, <<"", "R1", "5", "R2", "6">>,
     <<"", "B", "R2", "4">>, <<"", "RHS", "RU", "5">>,
     <<"", "RHS", "R1", "e">>, <<"", "RHS", "R1">>,
     <<"", "RHS", "R1", "5", "RU", "6">>}

RhsDocs ==
    {Frame(StdRows, StdColumns, r, StdRANGES, StdBOUNDS) :
        r \in SeqsOf(RhsLines, 1, MaxRhsLines)}

RangeLines ==
    {<<"", "RNG", "R2", "6">>, <<"", "RNG", "R1", "5", "R2", "6">>,
     <<"", "R2", "6">>, <<"", "B", "R1", "4">>,
     <<"", "RNG", "RU", "6">>, <<"", "RNG", "R2", ".">>}

RangesDocs ==
    {Frame(StdRows, StdColumns, StdRHS, r, StdBOUNDS) :
        r \in SeqsOf(RangeLines, 1, MaxRangeLines)}

BoundLines ==
    {<<"", t, n, c, "4">> :
        t \in {"LO", "UP"}, n \in {"BND", "B2"}, c \in {"X", "Z"}}
    \cup {<<"", "UP", "", "X", "4">>, <<"", "UP", "", "Z", "4">>,
          <<"", "XX", "BND", "X", "4">>, <<"", "XX", "B2", "Z", "4">>,
          <<"", "UP", "BND", "X", "e">>, <<"", "UP", "BND", "X">>}

BoundsDocs ==
    {Frame(StdRows, StdColumns, StdRHS, StdRANGES, b) :
        b \in SeqsOf(BoundLines, 1, MaxBoundLines)}

(* The canonical document of the tests, TESTPROB.                          *)
TestProb ==
    <<<<"NAME", "TESTPROB">>,
      <<"ROWS">>,
      <<"", "N", "COST">>, <<"", "L", "LIM1">>, <<"", "G", "LIM2">>,
      <<"", "E", "MYEQN">>,
      <<"COLUMNS">>,
      <<"", "XONE", "COST", "1", "LIM1", "1">>,
      <<"", "XONE", "LIM2", "1">>,
      <<"", "YTWO", "COST", "4", "LIM1", "1">>,
      <<"", "YTWO", "MYEQN", "-1">>,
      <<"", "ZTHREE", "COST", "9", "LIM2", "1">>,
      <<"", "ZTHREE", "MYEQN", "1">>,
      <<"RHS">>,
      <<"", "RHS", "LIM1", "5", "LIM2", "10">>,
      <<"", "RHS", "MYEQN", "7">>,
      <<"RANGES">>,
      <<"", "RNG", "LIM1", "6", "LIM2", "5">>,
      <<"BOUNDS">>,
      <<"", "UP", "BND", "XONE", "4">>,
      <<"", "LO", "BND", "YTWO", "-1">>,
      <<"", "UP", "BND", "YTWO", "1">>,
      <<"ENDATA">>>>

(* Lines the scanner passes over: a blank line, a comment, a no-op.        *)
IgnorableLines == {<<"", "">>, <<"*c", "ROWS">>, <<"&c">>}

InsertAt(d, k, line) ==
    SubSeq(d, 1, k - 1) \o <<line>> \o SubSeq(d, k, Len(d))

(* The documents of D with up to n such lines put in at any position.      *)
RECURSIVE Inserted(_, _)
Inserted(D, n) ==
    IF n = 0 THEN D
    ELSE LET P == Inserted(D, n - 1) IN
         P \cup UNION {{InsertAt(d, k, line) :
                            k \in 1..(Len(d) + 1), line \in IgnorableLines} :
                        d \in P}

(* The standard document with, in any of its sections, one more line that  *)
(* its processor rejects.                                                  *)
BadLine(S) ==
    CASE S = "ROWS" -> <<"", "NL", "R5">>
      [] S = "COLUMNS" -> <<"", "X", "R1">>
      [] S = "RHS" -> <<"", "RHS", "R1">>
      [] S = "RANGES" -> <<"", "RNG", "RU", "6">>
      [] S = "BOUNDS" -> <<"", "XX", "BND", "X", "4">>

WithBad(S, B, lines) == IF S \in B THEN lines \o <<BadLine(S)>> ELSE lines

ErrDocs ==
    {Frame(WithBad("ROWS", B, StdRows), WithBad("COLUMNS", B, StdColumns),
           WithBad("RHS", B, StdRHS), WithBad("RANGES", B, StdRANGES),
           WithBad("BOUNDS", B, StdBOUNDS)) :
        B \in SUBSET {"ROWS", "COLUMNS", "RHS", "RANGES", "BOUNDS"}}

(* The same documents with one line left out.                              *)
DroppedDocs ==
    UNION {{SubSeq(d, 1, k - 1) \o SubSeq(d, k + 1, Len(d)) :
                k \in DOMAIN d} : d \in ErrDocs}

(* The documents with a blank in front of some of their header lines.      *)
Indented(d, H) == [k \in DOMAIN d |-> IF k \in H THEN <<"">> \o d[k] ELSE d[k]]

HeaderWords == {"NAME", "ROWS", "COLUMNS", "RHS", "RANGES", "BOUNDS",
                "ENDATA"}

IndentedDocs ==
    UNION {{Indented(d, H) :
                H \in SUBSET {k \in DOMAIN d : d[k][1] \in HeaderWords}} :
            d \in {StdDoc, TestProb}}

InsertBases ==
    {StdDoc, SubSeq(StdDoc, 1, Len(StdDoc) - 1),
     Frame(StdRows, StdColumns, <<BadLine("RHS")>> \o StdRHS, StdRANGES,
           StdBOUNDS)}

(* The documents of the two interleaved calls.                             *)
PairDocs ==
    {TestProb, SubSeq(StdDoc, 1, Len(StdDoc) - 1)}
    \cup {Frame(WithBad("ROWS", {S}, StdRows),
                WithBad("COLUMNS", {S}, StdColumns),
                WithBad("RHS", {S}, StdRHS), WithBad("RANGES", {S}, StdRANGES),
                WithBad("BOUNDS", {S}, StdBOUNDS)) :
            S \in {"", "ROWS", "COLUMNS", "RHS", "RANGES", "BOUNDS"}}

(* Lines to append to a document that ends with ENDATA.                    *)
TailLines ==
    {<<"NAME", "OTHER">>, <<"ROWS">>, <<"", "N", "R9">>, <<"ENDATA">>,
     <<"", "UP", "BND", "X", "oops">>, <<"any", "text", "at", "", "all">>}

Tails ==
    {<<>>} \cup {<<t>> : t \in TailLines}
    \cup {<<t, u>> : t \in TailLines, u \in TailLines}

AppendedDocs == {d \o t : d \in {TestProb} \cup ErrDocs, t \in Tails}

EditDocs ==
    Inserted(InsertBases, MaxInserted) \cup ErrDocs \cup DroppedDocs
    \cup IndentedDocs \cup AppendedDocs

-----------------------------------------------------------------------------
(* Specifications.  Spec runs the documents that vary the lines of one     *)
(* section (or the stray lines in front of the standard document);         *)
(* SpecOrder runs the documents that vary the order of the sections, and   *)
(* SpecEmpty those that also leave the ROWS or COLUMNS section empty;      *)
(* SpecEdit runs the canonical document and documents edited line by line; *)
(* SpecCaller adds the caller of the returned object, and SpecPair runs    *)
(* two calls side by side.                                                 *)

InitOrder == \E d \in OrderDocs : Start(d)

InitEmpty == \E d \in EmptyDocs : Start(d)

InitEdit == \E d \in EditDocs : Start(d)

InitPair == \E d1 \in PairDocs : \E d2 \in PairDocs : StartPair(d1, d2)

InitStray == \E d \in StrayDocs : Start(d)

InitRows == \E d \in RowsDocs : Start(d)

InitColumns == \E d \in ColumnsDocs : Start(d)

InitRhs == \E d \in RhsDocs : Start(d)

InitRanges == \E d \in RangesDocs : Start(d)

InitBounds == \E d \in BoundsDocs : Start(d)

Init ==
    \/ InitStray
    \/ InitRows
    \/ InitColumns
    \/ InitRhs
    \/ InitRanges
    \/ InitBounds

Spec == Init /\ [][Next]_vars

SpecOrder == InitOrder /\ [][Next]_vars

SpecEmpty == InitEmpty /\ [][Next]_vars

SpecEdit == InitEdit /\ [][Next]_vars

SpecCaller == InitBounds /\ [][NextCaller]_vars

SpecPair == InitPair /\ [][NextPair]_vars

-----------------------------------------------------------------------------
(* Vocabulary of the properties.                                           *)

RECURSIVE FirstSeen(_)
FirstSeen(s) ==
    IF s = <<>> THEN <<>>
    ELSE LET p == FirstSeen(SubSeq(s, 1, Len(s) - 1)) IN
         IF s[Len(s)] \in Range(p) THEN p ELSE Append(p, s[Len(s)])

(* The row names declared by the data lines of the ROWS section and the    *)
(* column names referenced by those of the COLUMNS section, in file order. *)
RowNamesInFile ==
    LET d == SelectSeq(mps_data.rows_data, LAMBDA l : Len(Fields(l)) = 2)
    IN [k \in DOMAIN d |-> Fields(d[k])[2]]

ColumnNamesInFile ==
    LET d == SelectSeq(mps_data.columns_data,
                       LAMBDA l : Len(Fields(l)) \in {3, 5})
    IN [k \in DOMAIN d |-> Fields(d[k])[1]]

(* The (column, row, text) coefficients a COLUMNS data line states.        *)
Coefficients(line) ==
    LET f == Fields(line) IN
    IF Len(f) = 5 THEN {<<f[1], f[2], f[3]>>, <<f[1], f[4], f[5]>>}
    ELSE IF Len(f) = 3 THEN {<<f[1], f[2], f[3]>>}
    ELSE {}

IsZero(text) == text \in NumChars /\ ~float_raises(text) /\ float(text) = 0

(* The header a raw line is, "" when it is none.                           *)
HeaderKind(raw) ==
    LET line == strip(raw) IN
    IF MPS_NAME_SECTION_RE(line) THEN "NAME"
    ELSE IF Len(line) = 1
            /\ line[1] \in {"ROWS", "COLUMNS", "RHS", "RANGES", "BOUNDS",
                            "ENDATA"}
    THEN line[1]
    ELSE ""

(* The part of a document up to and including its first ENDATA line.       *)
RECURSIVE UpToENDATA(_)
UpToENDATA(d) ==
    IF d = <<>> THEN <<>>
    ELSE IF HeaderKind(Head(d)) = "ENDATA" THEN <<Head(d)>>
    ELSE <<Head(d)>> \o UpToENDATA(Tail(d))

(* The headers of a sequence of lines, in order.                           *)
Headers(d) ==
    SelectSeq([k \in DOMAIN d |-> HeaderKind(d[k])], LAMBDA h : h # "")

AcceptedOrders ==
    {<<"NAME", "ROWS", "COLUMNS", "RHS">> \o o \o <<"ENDATA">> :
        o \in {<<>>, <<"RANGES">>, <<"BOUNDS">>, <<"RANGES", "BOUNDS">>,
               <<"BOUNDS", "RANGES">>}}

-----------------------------------------------------------------------------
(* Properties.                                                             *)

(* C1: in every returned model the k-th distinct row name of the ROWS      *)
(* section has id k-1 and the rows of the model are exactly these names    *)
(* (so the ids are 0..n-1); likewise for the columns, in order of first    *)
(* reference in the COLUMNS section.  The code gives a repeated row name   *)
(* the index of its last line, so this fails.                              *)
C1_DenseIdsInFirstSeenOrder ==
    pc = "done" =>
        LET rn == FirstSeen(RowNamesInFile)
            cn == FirstSeen(ColumnNamesInFile)
        IN /\ DOMAIN self.rows = Range(rn)
           /\ \A k \in DOMAIN rn : self.rows[rn[k]].row_id = k - 1
           /\ DOMAIN self.columns = Range(cn)
           /\ \A k \in DOMAIN cn : self.columns[cn[k]] = k - 1

(* C2: when the ROWS section declares a row name twice, process_ROWS never *)
(* returns: the parse fails, and with the duplicate-row-name error.  The   *)
(* code has no such check and overwrites the earlier row.                  *)
C2_DuplicateRowNameRejected ==
    Len(FirstSeen(RowNamesInFile)) < Len(RowNamesInFile) =>
        /\ pc \in {"NAME", "ROWS", "failed"}
        /\ pc = "failed" => raised = "DuplicateRowNameException"

(* C3: in a returned model, no coefficient that some COLUMNS line states   *)
(* as zero has its (row_id, column_id) key in the element map.  The code   *)
(* keeps the key when another statement of the same position is nonzero.   *)
C3_StatedZeroNeverStored ==
    pc = "done" =>
        \A k \in DOMAIN mps_data.columns_data :
            \A c \in Coefficients(mps_data.columns_data[k]) :
                IsZero(c[3]) =>
                    <<self.rows[c[2]].row_id, self.columns[c[1]]>>
                        \notin DOMAIN self.elements

(* C4: a document is accepted only if its headers, up to the first ENDATA, *)
(* are NAME, ROWS, COLUMNS, RHS, then RANGES and/or BOUNDS in either       *)
(* order or neither, then ENDATA.  The scanner checks presence only.       *)
C4_HeaderOrderEnforced ==
    pc = "done" => Headers(UpToENDATA(doc)) \in AcceptedOrders

(* C5: a parse that fails, fails with one of the MPS exception kinds.  A   *)
(* numeric field such as "e" or "." makes float() raise ValueError.        *)
C5_OnlyMPSExceptions ==
    pc = "failed" => raised \in MPSExceptions

(* C6: the seven fields are published only by the last step of a call that *)
(* raised nothing, and all together: in every other state of a call, and   *)
(* in every state of a failed call, self holds none of them.               *)
C6_AllOrNothing ==
    IF pc = "done"
    THEN /\ raised = "none"
         /\ self = [name |-> problem_name, rows |-> rows_dict,
                    columns |-> columns_dict, elements |-> elements_dict,
                    rhs |-> rhs_dict, ranges |-> ranges_dict,
                    bounds |-> bounds_dict]
    ELSE self = NoAttributes

C6_Witness ==
    /\ pc = "done"
    /\ DOMAIN self = {"name", "rows", "columns", "elements", "rhs", "ranges",
                      "bounds"}
    /\ self.rhs # EmptyDict
    /\ self.ranges # EmptyDict
    /\ self.bounds # EmptyDict

Finished == pc \in {"done", "failed"}

NoENDATALine(d) == \A k \in DOMAIN d : HeaderKind(d[k]) # "ENDATA"

(* A line the scanner appends to the open section.                         *)
IsDataLine(raw) ==
    /\ strip(raw) # <<>>
    /\ ~startswith(strip(raw), "*")
    /\ ~startswith(strip(raw), "&")
    /\ HeaderKind(raw) = ""

OpensSection(raw) ==
    HeaderKind(raw) \in {"ROWS", "COLUMNS", "RHS", "RANGES", "BOUNDS"}

(* Every data line comes after a header that opens a section.              *)
DataFollowsSection(d) ==
    \A k \in DOMAIN d :
        IsDataLine(d[k]) => \E j \in 1..(k - 1) : OpensSection(d[j])

(* C7 as stated: every document without an ENDATA line fails with          *)
(* NoENDATAException.  Refuted: the checks of NAME, ROWS, COLUMNS and RHS  *)
(* and the stray data line come first.                                     *)
C7_NoENDATAAlwaysRaisesNoENDATA ==
    (Finished /\ NoENDATALine(doc)) => raised = "NoENDATAException"

(* C7 amended: a document without an ENDATA line that has the NAME, ROWS,  *)
(* COLUMNS and RHS headers and no data line before the first opened        *)
(* section fails with NoENDATAException.                                   *)
C7_NoENDATAWithOtherMarkers ==
    ( /\ Finished
      /\ NoENDATALine(doc)
      /\ {"NAME", "ROWS", "COLUMNS", "RHS"} \subseteq Range(Headers(doc))
      /\ DataFollowsSection(doc) )
    => raised = "NoENDATAException"

C7_Witness ==
    /\ pc = "failed"
    /\ raised = "NoENDATAException"
    /\ NoENDATALine(doc)
    /\ {"NAME", "ROWS", "COLUMNS", "RHS", "BOUNDS"} \subseteq
           Range(Headers(doc))
    /\ DataFollowsSection(doc)

(* C8: every document without any section header fails with               *)
(* NotMPSFileException.  The code raises it only at a data line: an empty  *)
(* document, or one of blank, comment and no-op lines, ends the loop with  *)
(* an empty name and fails with NoNAMEException.                           *)
C8_NoHeaderIsNotMPSFile ==
    (Finished /\ Headers(doc) = <<>>) => raised = "NotMPSFileException"

(* The columns declared in the COLUMNS section.                            *)
DeclaredColumns == Range(ColumnNamesInFile)

(* The sections processed before BOUNDS raise nothing.                     *)
SectionsBeforeBOUNDSParse ==
    /\ mps_data.rows_data # <<>>
    /\ LET r == process_ROWS(mps_data.rows_data) IN
       /\ r.raised = "none"
       /\ process_COLUMNS(mps_data.columns_data, r.rows_info).raised = "none"
       /\ process_RHS(mps_data.rhs_data, r.rows_info).raised = "none"
       /\ process_RANGES(mps_data.ranges_data, r.rows_info).raised = "none"

(* A BOUNDS data line of the right layout with a recognised bound type.    *)
WellLaidOutBound(line) ==
    /\ MPS_BOUNDS_DATA_RE(line)
    /\ BoundsGroups(line)[1] \in MPS_BOUNDS_TYPES

NamesUndeclaredColumn(line) ==
    /\ WellLaidOutBound(line)
    /\ BoundsGroups(line)[3] \notin DeclaredColumns

(* Line k of the BOUNDS section is reached and not passed over: the lines  *)
(* before it are valid, and up to line k every vector-name token equals    *)
(* the first non-empty one.                                                *)
BoundReached(data, k) ==
    /\ \A j \in 1..(k - 1) :
          /\ WellLaidOutBound(data[j])
          /\ BoundsGroups(data[j])[3] \in DeclaredColumns
                => ~float_raises(BoundsGroups(data[j])[4])
    /\ \A i \in 1..k : \A j \in i..k :
          (WellLaidOutBound(data[i]) /\ WellLaidOutBound(data[j])
           /\ BoundsGroups(data[i])[2] # "")
              => BoundsGroups(data[j])[2] = BoundsGroups(data[i])[2]

(* C9 as stated: in an otherwise valid document, a well-laid-out BOUNDS    *)
(* line naming an undeclared column makes the parse fail with              *)
(* UnknownColumnException wherever it stands and whatever its vector name. *)
(* Refuted: a line at or after a differing vector-name token is skipped.   *)
C9_UnknownColumnNeverSkipped ==
    ( /\ Finished
      /\ SectionsBeforeBOUNDSParse
      /\ \A k \in DOMAIN mps_data.bounds_data :
            /\ WellLaidOutBound(mps_data.bounds_data[k])
            /\ ~float_raises(BoundsGroups(mps_data.bounds_data[k])[4])
      /\ \E k \in DOMAIN mps_data.bounds_data :
            NamesUndeclaredColumn(mps_data.bounds_data[k]) )
    => raised = "UnknownColumnException"

(* C9 amended: such a line makes the parse fail with                       *)
(* UnknownColumnException when it is reached, that is when the lines       *)
(* before it are valid and neither it nor an earlier line of the section   *)
(* carries a vector-name token different from the section's first one.     *)
C9_ReachedUnknownColumnRaises ==
    (Finished /\ SectionsBeforeBOUNDSParse) =>
        \A k \in DOMAIN mps_data.bounds_data :
            ( /\ NamesUndeclaredColumn(mps_data.bounds_data[k])
              /\ BoundReached(mps_data.bounds_data, k) )
            => raised = "UnknownColumnException"

C9_Witness ==
    /\ pc = "failed"
    /\ raised = "UnknownColumnException"
    /\ SectionsBeforeBOUNDSParse
    /\ \E k \in 3..Len(mps_data.bounds_data) :
          /\ NamesUndeclaredColumn(mps_data.bounds_data[k])
          /\ BoundReached(mps_data.bounds_data, k)
          /\ ~NamesUndeclaredColumn(mps_data.bounds_data[1])
          /\ ~NamesUndeclaredColumn(mps_data.bounds_data[2])

Mandatory == {"NAME", "ROWS", "COLUMNS", "RHS", "ENDATA"}

ErrorOfMarker(m) ==
    CASE m = "NAME" -> "NoNAMEException"
      [] m = "ROWS" -> "NoROWSException"
      [] m = "COLUMNS" -> "NoCOLUMNSException"
      [] m = "RHS" -> "NoRHSException"
      [] m = "ENDATA" -> "NoENDATAException"

(* C10 as stated: a document that lacks exactly one of the five mandatory  *)
(* markers, and whose data lines all follow an opened section, fails with  *)
(* the error kind of that marker.  Refuted: a marker that stands after the *)
(* first ENDATA is never read.                                             *)
C10_MissingMarkerOwnError ==
    (Finished /\ DataFollowsSection(doc)) =>
        \A m \in Mandatory :
            Mandatory \ Range(Headers(doc)) = {m}
                => raised = ErrorOfMarker(m)

(* C10 amended: a document whose lines up to its first ENDATA (all its     *)
(* lines when it has none) lack exactly one of the five mandatory markers, *)
(* and whose data lines all follow an opened section, fails with the error *)
(* kind of that marker.                                                    *)
C10_MissingScannedMarkerOwnError ==
    (Finished /\ DataFollowsSection(doc)) =>
        \A m \in Mandatory :
            Mandatory \ Range(Headers(UpToENDATA(doc))) = {m}
                => raised = ErrorOfMarker(m)

C10_Witness ==
    /\ pc = "failed"
    /\ raised = "NoCOLUMNSException"
    /\ DataFollowsSection(doc)
    /\ Mandatory \ Range(Headers(UpToENDATA(doc))) = {"COLUMNS"}
    /\ "BOUNDS" \in Range(Headers(doc))

(* The header that opened the section line k of d falls in, "" if none.    *)
LastOpener(d, k) ==
    LET S == {j \in 1..(k - 1) : OpensSection(d[j])} IN
    IF S = {} THEN ""
    ELSE HeaderKind(d[CHOOSE j \in S : \A i \in S : i <= j])

(* The data lines of d that fall in the section opened by kind.            *)
SectionData(d, kind) ==
    {k \in DOMAIN d : IsDataLine(d[k]) /\ LastOpener(d, k) = kind}

ReachesNoProcessor ==
    /\ pc = "failed"
    /\ mps_data = NoData
    /\ rows_dict = EmptyDict
    /\ columns_dict = EmptyDict

(* C11 as stated: a document with the five mandatory markers and no data   *)
(* line in its ROWS section fails with NoROWSDataException, one with ROWS  *)
(* data and no data line in its COLUMNS section with                       *)
(* NoCOLUMNSDataException, before any processor runs.  Refuted: a data     *)
(* line before the first opened section raises NotMPSFileException, and a  *)
(* marker after the first ENDATA is never read.                            *)
C11_EmptySectionOwnError ==
    (Finished /\ Mandatory \subseteq Range(Headers(doc))) =>
        /\ SectionData(doc, "ROWS") = {} =>
              (raised = "NoROWSDataException" /\ ReachesNoProcessor)
        /\ (SectionData(doc, "ROWS") # {} /\ SectionData(doc, "COLUMNS") = {})
              => (raised = "NoCOLUMNSDataException" /\ ReachesNoProcessor)

(* C11 amended: the same for a document whose lines up to its first ENDATA *)
(* hold the five mandatory markers and no data line before the first       *)
(* opened section, the sections being those of that part of the document.  *)
C11_ScannedEmptySectionOwnError ==
    LET d == UpToENDATA(doc) IN
    ( /\ Finished
      /\ Mandatory \subseteq Range(Headers(d))
      /\ DataFollowsSection(d) ) =>
        /\ SectionData(d, "ROWS") = {} =>
              (raised = "NoROWSDataException" /\ ReachesNoProcessor)
        /\ (SectionData(d, "ROWS") # {} /\ SectionData(d, "COLUMNS") = {})
              => (raised = "NoCOLUMNSDataException" /\ ReachesNoProcessor)

C11_Witness ==
    LET d == UpToENDATA(doc) IN
    /\ raised = "NoCOLUMNSDataException"
    /\ ReachesNoProcessor
    /\ Mandatory \subseteq Range(Headers(d))
    /\ DataFollowsSection(d)
    /\ SectionData(d, "ROWS") # {}
    /\ SectionData(d, "COLUMNS") = {}
    /\ SectionData(d, "RHS") # {}

(* A data line of d with no header of any kind before it.                  *)
DataBeforeAnyHeader(d) ==
    \E k \in DOMAIN d :
        /\ IsDataLine(d[k])
        /\ \A j \in 1..(k - 1) : HeaderKind(d[j]) = ""

(* C12: a document with a data line before any section header fails with   *)
(* NotMPSFileException whatever follows that line, at the scan and so      *)
(* before the checks of the mandatory markers.                             *)
C12_DataBeforeHeaderIsNotMPSFile ==
    (Finished /\ DataBeforeAnyHeader(doc)) =>
        /\ pc = "failed"
        /\ raised = "NotMPSFileException"
        /\ mps_data = NoData

C12_Witness ==
    /\ pc = "failed"
    /\ raised = "NotMPSFileException"
    /\ DataBeforeAnyHeader(doc)
    /\ ~IsDataLine(doc[1])
    /\ Mandatory \subseteq Range(Headers(doc))
    /\ \E k \in DOMAIN doc : HeaderKind(doc[k]) = "" /\ startswith(doc[k], "*")

(* A data line of one or two (row, value) pairs without a vector-name      *)
(* token, naming declared rows and stating numbers.                        *)
VectorlessPairs(line) ==
    LET g == Fields(line) IN
    IF Len(g) = 2 THEN <<<<g[1], g[2]>>>>
    ELSE IF Len(g) = 4 THEN <<<<g[1], g[2]>>, <<g[3], g[4]>>>>
    ELSE <<>>

VectorlessLine(line) ==
    /\ VectorlessPairs(line) # <<>>
    /\ \A p \in Range(VectorlessPairs(line)) :
          /\ p[1] \in DOMAIN rows_dict
          /\ p[2] \in NumChars
          /\ ~float_raises(p[2])

(* The pairs of a section made of such lines, in file order.               *)
PairsOf(data) == Flatten([k \in DOMAIN data |-> VectorlessPairs(data[k])])

(* A section map holds, for every row, the value of its last pair.         *)
HoldsPairs(dict, pairs) ==
    \A k \in DOMAIN pairs :
        (\A j \in (k + 1)..Len(pairs) : pairs[j][1] # pairs[k][1])
            => /\ pairs[k][1] \in DOMAIN dict
               /\ dict[pairs[k][1]] = float(pairs[k][2])

AllVectorless(data) ==
    data # <<>> /\ \A k \in DOMAIN data : VectorlessLine(data[k])

(* C13 as stated: in RHS and in RANGES alike, data lines without the       *)
(* vector-name token that name declared rows are never rejected as         *)
(* malformed, and their values are stored under the rows they name.        *)
(* Refuted for RANGES, whose two layouts both require the token.           *)
C13_VectorlessLinesAccepted ==
    /\ (Finished /\ AllVectorless(mps_data.rhs_data)) =>
          /\ raised # "BadRHSDataException"
          /\ pc = "done" => HoldsPairs(self.rhs, PairsOf(mps_data.rhs_data))
    /\ (Finished /\ AllVectorless(mps_data.ranges_data)) =>
          /\ raised # "BadRANGESDataException"
          /\ pc = "done" =>
                HoldsPairs(self.ranges, PairsOf(mps_data.ranges_data))

VectorSections == {"RHS", "RANGES", "BOUNDS"}

(* The vector-name token a line of section S carries, "" when it carries   *)
(* none.                                                                   *)
VectorToken(S, line) ==
    CASE S = "RHS" ->
            IF MPS_RHS_2_DATA_RE(line) \/ MPS_RHS_1_DATA_RE(line)
            THEN Fields(line)[1] ELSE ""
      [] S = "RANGES" ->
            IF MPS_RANGES_2_DATA_RE(line) \/ MPS_RANGES_1_DATA_RE(line)
            THEN Fields(line)[1] ELSE ""
      [] S = "BOUNDS" ->
            IF MPS_BOUNDS_DATA_RE(line) THEN BoundsGroups(line)[2] ELSE ""

SectionLines(S) ==
    CASE S = "RHS" -> mps_data.rhs_data
      [] S = "RANGES" -> mps_data.ranges_data
      [] S = "BOUNDS" -> mps_data.bounds_data

(* The processor of section S run on the lines data, with the rows and     *)
(* columns of this parse.                                                  *)
Consume(S, data) ==
    CASE S = "RHS" -> process_RHS(data, rows_dict)
      [] S = "RANGES" -> process_RANGES(data, rows_dict)
      [] S = "BOUNDS" -> process_BOUNDS(data, columns_dict)

Published(S) ==
    CASE S = "RHS" -> self.rhs
      [] S = "RANGES" -> self.ranges
      [] S = "BOUNDS" -> self.bounds

(* ROWS and COLUMNS were processed, and the vector sections other than S   *)
(* raise nothing.                                                          *)
OtherSectionsParse(S) ==
    /\ rows_dict # EmptyDict
    /\ columns_dict # EmptyDict
    /\ \A T \in VectorSections \ {S} :
          Consume(T, SectionLines(T)).raised = "none"

(* The token of the first line before line k that carries one.             *)
Established(S, data, k) ==
    LET C == {i \in 1..(k - 1) : VectorToken(S, data[i]) # ""} IN
    IF C = {} THEN ""
    ELSE VectorToken(S, data[CHOOSE i \in C : \A j \in C : i <= j])

(* Line k of section S is the first to carry a token different from the    *)
(* established one, the lines before it having been consumed.              *)
Boundary(S, k) ==
    LET data == SectionLines(S) IN
    /\ k \in DOMAIN data
    /\ Consume(S, SubSeq(data, 1, k - 1)).raised = "none"
    /\ ~Consume(S, SubSeq(data, 1, k - 1)).stop
    /\ Established(S, data, k) # ""
    /\ VectorToken(S, data[k]) \notin {"", Established(S, data, k)}

(* C14 as stated: from the first line of an RHS, RANGES or BOUNDS section  *)
(* carrying a different vector-name token on, the lines contribute no      *)
(* entry and raise no error, and the entries of the earlier lines are in   *)
(* the returned model.  Refuted in BOUNDS: the bound type of that line is  *)
(* checked before its token is compared.                                   *)
C14_DifferentVectorStopsSilently ==
    \A S \in VectorSections :
        (Finished /\ OtherSectionsParse(S)
            /\ \E k \in DOMAIN SectionLines(S) : Boundary(S, k)) =>
            /\ pc = "done"
            /\ \A k \in DOMAIN SectionLines(S) :
                  Boundary(S, k) =>
                      Published(S) =
                          Consume(S, SubSeq(SectionLines(S), 1, k - 1)).dict

RecognisedAt(S, k) ==
    S = "BOUNDS" => BoundsGroups(SectionLines(S)[k])[1] \in MPS_BOUNDS_TYPES

(* C14 amended: the same, in BOUNDS for a line whose bound-type code is    *)
(* one of the six recognised codes.                                        *)
C14_DifferentVectorStopsSection ==
    \A S \in VectorSections :
        (Finished /\ OtherSectionsParse(S)
            /\ \E k \in DOMAIN SectionLines(S) :
                  Boundary(S, k) /\ RecognisedAt(S, k)) =>
            /\ pc = "done"
            /\ \A k \in DOMAIN SectionLines(S) :
                  Boundary(S, k) =>
                      Published(S) =
                          Consume(S, SubSeq(SectionLines(S), 1, k - 1)).dict

C14_Witness ==
    /\ pc = "done"
    /\ Boundary("RHS", 2)
    /\ Len(mps_data.rhs_data) = 3
    /\ mps_data.rhs_data[3] = <<"RHS", "R1">>
    /\ DOMAIN self.rhs = {"R1"}

(* The BOUNDS lines before the first one whose token differs from the      *)
(* established vector name: the lines the loop consumes.                   *)
ConsumedBounds ==
    LET data == mps_data.bounds_data
        Stops == {k \in DOMAIN data :
                    /\ Established("BOUNDS", data, k) # ""
                    /\ VectorToken("BOUNDS", data[k])
                          # Established("BOUNDS", data, k)}
    IN  IF Stops = {} THEN data
        ELSE SubSeq(data, 1, (CHOOSE k \in Stops : \A j \in Stops : k <= j) - 1)

(* One entry per line of lines naming column, in the order of the lines.   *)
EntriesFor(lines, column) ==
    LET sel == SelectSeq(lines, LAMBDA l : BoundsGroups(l)[3] = column) IN
    [i \in 1..Len(sel) |->
        [bound_type |-> BoundsGroups(sel[i])[1],
         value |-> float(BoundsGroups(sel[i])[4])]]

(* C15: in a returned model the bounds of a column are exactly the         *)
(* consumed BOUNDS lines naming it, in file order, one entry per line and  *)
(* none replaced; a column no consumed line names has no bounds.           *)
C15_BoundsAppendInFileOrder ==
    pc = "done" =>
        /\ DOMAIN self.bounds =
              {BoundsGroups(l)[3] : l \in Range(ConsumedBounds)}
        /\ \A c \in DOMAIN self.bounds :
              self.bounds[c] = EntriesFor(ConsumedBounds, c)

C15_Witness ==
    /\ pc = "done"
    /\ \E c \in DOMAIN self.bounds :
          /\ Len(self.bounds[c]) = 2
          /\ self.bounds[c][1].bound_type = "LO"
          /\ self.bounds[c][2].bound_type = "UP"
    /\ Len(ConsumedBounds) < Len(mps_data.bounds_data)

(* C16: in a returned model the keys of rhs and of ranges are row names of *)
(* the rows map, the keys of bounds are column names of the columns map,   *)
(* and every element key pairs the id of a row of the rows map with the id *)
(* of a column of the columns map.                                         *)
C16_ReferentialIntegrity ==
    pc = "done" =>
        /\ DOMAIN self.rhs \subseteq DOMAIN self.rows
        /\ DOMAIN self.ranges \subseteq DOMAIN self.rows
        /\ DOMAIN self.bounds \subseteq DOMAIN self.columns
        /\ \A key \in DOMAIN self.elements :
              /\ \E r \in DOMAIN self.rows : self.rows[r].row_id = key[1]
              /\ \E c \in DOMAIN self.columns : self.columns[c] = key[2]

C16_Witness ==
    /\ pc = "done"
    /\ Cardinality(DOMAIN self.rhs) = 2
    /\ self.ranges # EmptyDict
    /\ self.bounds # EmptyDict
    /\ self.elements # EmptyDict

(* Every COLUMNS line has one of the two layouts, names declared rows and  *)
(* states numbers.                                                         *)
ColumnsLinesValid ==
    \A k \in DOMAIN mps_data.columns_data :
        /\ Coefficients(mps_data.columns_data[k]) # {}
        /\ \A c \in Coefficients(mps_data.columns_data[k]) :
              /\ c[2] \in DOMAIN rows_dict
              /\ c[3] \in NumChars
              /\ ~float_raises(c[3])

StatesZero ==
    \E k \in DOMAIN mps_data.columns_data :
        \E c \in Coefficients(mps_data.columns_data[k]) : IsZero(c[3])

(* C17: no element of a returned model has the value zero, and a COLUMNS   *)
(* section whose lines are valid is processed without error when some of   *)
(* its coefficients are zero.                                              *)
C17_NoZeroElementNoError ==
    /\ pc = "done" =>
          \A key \in DOMAIN self.elements : self.elements[key] # 0
    /\ (Finished /\ rows_dict # EmptyDict /\ ColumnsLinesValid /\ StatesZero)
          => columns_dict # EmptyDict

C17_Witness ==
    /\ pc = "done"
    /\ StatesZero
    /\ self.elements # EmptyDict
    /\ \E k \in DOMAIN mps_data.columns_data :
          \A c \in Coefficients(mps_data.columns_data[k]) : IsZero(c[3])

RowSections == {"COLUMNS", "RHS", "RANGES"}

RowSectionLines(S) ==
    IF S = "COLUMNS" THEN mps_data.columns_data ELSE SectionLines(S)

(* The rows a line of section S names, {} when it has no layout of S.      *)
NamedRows(S, line) ==
    LET g == Fields(line) IN
    CASE S = "COLUMNS" ->
            IF MPS_COLUMNS_2_DATA_RE(line) THEN {g[2], g[4]}
            ELSE IF MPS_COLUMNS_1_DATA_RE(line) THEN {g[2]}
            ELSE {}
      [] S = "RHS" ->
            IF MPS_RHS_2_DATA_RE(line) THEN {g[2], g[4]}
            ELSE IF MPS_RHS_1_DATA_RE(line) THEN {g[2]}
            ELSE IF MPS_RHS_2_DATA_EXTRA_RE(line) THEN {g[1], g[3]}
            ELSE IF MPS_RHS_1_DATA_EXTRA_RE(line) THEN {g[1]}
            ELSE {}
      [] S = "RANGES" ->
            IF MPS_RANGES_2_DATA_RE(line) THEN {g[2], g[4]}
            ELSE IF MPS_RANGES_1_DATA_RE(line) THEN {g[2]}
            ELSE {}

(* The sections processed before S raised nothing.                         *)
ProcessedBefore(S) ==
    CASE S = "COLUMNS" -> rows_dict # EmptyDict
      [] S = "RHS" -> columns_dict # EmptyDict
      [] S = "RANGES" ->
            /\ columns_dict # EmptyDict
            /\ Consume("RHS", SectionLines("RHS")).raised = "none"

(* Line k of section S is consumed: the lines before it raise nothing, and *)
(* no line up to it carries a vector-name token that differs.              *)
RowLineConsumed(S, k) ==
    LET data == RowSectionLines(S)
        pre == SubSeq(data, 1, k - 1)
    IN  /\ ProcessedBefore(S)
        /\ IF S = "COLUMNS"
           THEN process_COLUMNS(pre, rows_dict).raised = "none"
           ELSE /\ Consume(S, pre).raised = "none"
                /\ ~Consume(S, pre).stop
                /\ VectorToken(S, data[k]) \in {"", Established(S, data, k)}
                      \/ Established(S, data, k) = ""

UndeclaredRowConsumed ==
    \E S \in RowSections : \E k \in DOMAIN RowSectionLines(S) :
        /\ RowLineConsumed(S, k)
        /\ \E r \in NamedRows(S, RowSectionLines(S)[k]) :
              r \notin DOMAIN rows_dict

(* C18: a consumed COLUMNS, RHS or RANGES line naming an undeclared row,   *)
(* in the sole position or in either position of two, makes the parse fail *)
(* with UnknownRowException, and no model is returned.                     *)
C18_UndeclaredRowRaises ==
    (Finished /\ UndeclaredRowConsumed) =>
        /\ pc = "failed"
        /\ raised = "UnknownRowException"
        /\ self = NoAttributes

C18_Witness ==
    /\ pc = "failed"
    /\ raised = "UnknownRowException"
    /\ RowLineConsumed("RHS", 2)
    /\ MPS_RHS_2_DATA_RE(mps_data.rhs_data[2])
    /\ Fields(mps_data.rhs_data[2])[2] \in DOMAIN rows_dict
    /\ Fields(mps_data.rhs_data[2])[4] \notin DOMAIN rows_dict

(* A ROWS data line made of a code and a row name.                         *)
CodeAndName(line) == Len(Fields(line)) = 2

(* The lines of the ROWS section before line k are accepted.               *)
RowsAcceptedBefore(k) ==
    \A j \in 1..(k - 1) :
        /\ CodeAndName(mps_data.rows_data[j])
        /\ Fields(mps_data.rows_data[j])[1] \in MPS_ROW_TYPES

(* In a returned model every ROWS line has its row in the rows map, and    *)
(* every row has the code of a line that declares it.                      *)
RowsAcceptedWithKind ==
    pc = "done" =>
        /\ \A k \in DOMAIN mps_data.rows_data :
              Fields(mps_data.rows_data[k])[2] \in DOMAIN self.rows
        /\ \A r \in DOMAIN self.rows :
              \E k \in DOMAIN mps_data.rows_data :
                  /\ Fields(mps_data.rows_data[k])[2] = r
                  /\ Fields(mps_data.rows_data[k])[1] = self.rows[r].row_type
                  /\ self.rows[r].row_type \in MPS_ROW_TYPES

(* C19 as stated: a consumed ROWS line made of a code and a row name whose *)
(* code is not N, L, G or E fails with UnknownROWSTypeException whatever   *)
(* the length or case of the code, and the other lines are accepted with   *)
(* their kind.  Refuted: a code of two characters makes the line           *)
(* malformed.                                                              *)
C19_UnknownCodeAnyLength ==
    /\ RowsAcceptedWithKind
    /\ Finished =>
          \A k \in DOMAIN mps_data.rows_data :
              ( /\ RowsAcceptedBefore(k)
                /\ CodeAndName(mps_data.rows_data[k])
                /\ Fields(mps_data.rows_data[k])[1] \notin MPS_ROW_TYPES )
              => raised = "UnknownROWSTypeException"

(* C19 amended: the same for a code of one character, whatever its case.   *)
C19_UnknownCodeOneCharacter ==
    /\ RowsAcceptedWithKind
    /\ Finished =>
          \A k \in DOMAIN mps_data.rows_data :
              ( /\ RowsAcceptedBefore(k)
                /\ CodeAndName(mps_data.rows_data[k])
                /\ Fields(mps_data.rows_data[k])[1] \in SingleChar
                /\ Fields(mps_data.rows_data[k])[1] \notin MPS_ROW_TYPES )
              => raised = "UnknownROWSTypeException"

C19_Witness ==
    /\ pc = "failed"
    /\ raised = "UnknownROWSTypeException"
    /\ Len(mps_data.rows_data) = 3
    /\ RowsAcceptedBefore(2)
    /\ Fields(mps_data.rows_data[2])[1] = "n"
    /\ Fields(mps_data.rows_data[3])[1] = "NL"

(* The BOUNDS lines before line k are consumed: each has the layout, a     *)
(* recognised type, a declared column and a number, and none carries a     *)
(* token different from the established vector name.                       *)
BoundsConsumedBefore(k) ==
    LET data == mps_data.bounds_data IN
    \A j \in 1..(k - 1) :
        /\ MPS_BOUNDS_DATA_RE(data[j])
        /\ BoundsGroups(data[j])[1] \in MPS_BOUNDS_TYPES
        /\ BoundsGroups(data[j])[3] \in DOMAIN columns_dict
        /\ ~float_raises(BoundsGroups(data[j])[4])
        /\ Established("BOUNDS", data, j)
              \in {"", VectorToken("BOUNDS", data[j])}

UnknownTypeAt(k) ==
    /\ MPS_BOUNDS_DATA_RE(mps_data.bounds_data[k])
    /\ BoundsGroups(mps_data.bounds_data[k])[1] \notin MPS_BOUNDS_TYPES

(* C20: a reached BOUNDS line of the section's layout whose bound-type     *)
(* code is not one of the six makes the parse fail with                    *)
(* UnknownBOUNDSTypeException, whatever its vector-name token, its column  *)
(* and its value.                                                          *)
C20_UnknownBoundTypeRaisesFirst ==
    (Finished /\ OtherSectionsParse("BOUNDS")) =>
        \A k \in DOMAIN mps_data.bounds_data :
            (BoundsConsumedBefore(k) /\ UnknownTypeAt(k))
                => (pc = "failed" /\ raised = "UnknownBOUNDSTypeException")

C20_Witness ==
    /\ pc = "failed"
    /\ raised = "UnknownBOUNDSTypeException"
    /\ OtherSectionsParse("BOUNDS")
    /\ Len(mps_data.bounds_data) = 3
    /\ BoundsConsumedBefore(2)
    /\ UnknownTypeAt(2)
    /\ Boundary("BOUNDS", 2)
    /\ BoundsGroups(mps_data.bounds_data[2])[3] \notin DOMAIN columns_dict

DataSections == {"ROWS", "COLUMNS", "RHS", "RANGES", "BOUNDS"}

DataLines(S) ==
    IF S = "ROWS" THEN mps_data.rows_data ELSE
    IF S = "COLUMNS" THEN mps_data.columns_data ELSE SectionLines(S)

(* The line matches one of the layouts of section S.                       *)
HasLayout(S, line) ==
    CASE S = "ROWS" -> MPS_ROWS_DATA_RE(line)
      [] S = "COLUMNS" ->
            MPS_COLUMNS_2_DATA_RE(line) \/ MPS_COLUMNS_1_DATA_RE(line)
      [] S = "RHS" ->
            \/ MPS_RHS_2_DATA_RE(line) \/ MPS_RHS_1_DATA_RE(line)
            \/ MPS_RHS_2_DATA_EXTRA_RE(line) \/ MPS_RHS_1_DATA_EXTRA_RE(line)
      [] S = "RANGES" ->
            MPS_RANGES_2_DATA_RE(line) \/ MPS_RANGES_1_DATA_RE(line)
      [] S = "BOUNDS" -> MPS_BOUNDS_DATA_RE(line)

(* Line k of section S is reached: the sections processed before S and the *)
(* lines of S before line k raise nothing and do not stop the section.     *)
LineReached(S, k) ==
    CASE S = "ROWS" -> RowsAcceptedBefore(k)
      [] S \in RowSections -> RowLineConsumed(S, k)
      [] S = "BOUNDS" ->
            OtherSectionsParse("BOUNDS") /\ BoundsConsumedBefore(k)

MalformedError(S) ==
    CASE S = "ROWS" -> "BadROWSDataException"
      [] S = "COLUMNS" -> "BadCOLUMNSDataException"
      [] S = "RHS" -> "BadRHSDataException"
      [] S = "RANGES" -> "BadRANGESDataException"
      [] S = "BOUNDS" -> "BadBOUNDSDataException"

(* C21: in each of the five data sections a reached line that matches none *)
(* of the section's layouts makes the parse fail with the malformed-line   *)
(* error of that section.                                                  *)
C21_MalformedLineOwnError ==
    Finished =>
        \A S \in DataSections : \A k \in DOMAIN DataLines(S) :
            (LineReached(S, k) /\ ~HasLayout(S, DataLines(S)[k]))
                => (pc = "failed" /\ raised = MalformedError(S))

C21_Witness ==
    /\ pc = "failed"
    /\ raised = "BadRANGESDataException"
    /\ Len(mps_data.ranges_data) = 3
    /\ LineReached("RANGES", 2)
    /\ HasLayout("RANGES", mps_data.ranges_data[1])
    /\ ~HasLayout("RANGES", mps_data.ranges_data[2])

(* A line the scanner passes over.                                         *)
Ignorable(raw) ==
    \/ strip(raw) = <<>>
    \/ startswith(strip(raw), "*")
    \/ startswith(strip(raw), "&")

RemoveIgnorable(d) == SelectSeq(d, LAMBDA raw : ~Ignorable(raw))

(* C22: blank lines, comment lines and no-op lines are ignored wherever    *)
(* they stand: a document ends in the outcome, model or error kind, of the *)
(* document without them.                                                  *)
C22_IgnorableLinesIgnored ==
    Finished => Outcome(Call) = CMPS(RemoveIgnorable(doc))

C22_Witness ==
    /\ pc = "done"
    /\ Len(doc) = Len(RemoveIgnorable(doc)) + 2
    /\ \E k \in 2..(Len(doc) - 1) :
          /\ Ignorable(doc[k])
          /\ strip(doc[k]) # <<>>
          /\ IsDataLine(doc[k - 1])
          /\ IsDataLine(doc[k + 1])
    /\ \E k \in DOMAIN doc : strip(doc[k]) = <<>>

(* The header kind m is written at the first character of a line of d.     *)
AtLineStart(d, m) ==
    \E k \in DOMAIN d :
        d[k] # <<>> /\ Head(d[k]) = m /\ HeaderKind(d[k]) = m

(* C23 as stated: a line with whitespace before the header token is not a  *)
(* header, so a document is accepted only if each of its five mandatory    *)
(* markers stands at the first character of some line.  Refuted: the       *)
(* scanner strips every line before it tests the header patterns.          *)
C23_HeaderOnlyAtLineStart ==
    pc = "done" => \A m \in Mandatory : AtLineStart(doc, m)

(* C24: once a model is returned, nothing the caller does through its      *)
(* views changes its contents.  Refuted: the bounds view hands out the     *)
(* lists of bound entries themselves.                                      *)
C24_ReturnedModelNeverChanges ==
    [][(pc \in {"done", "used"}) => (self' = self)]_vars

(* The model the tests expect of the canonical document.                   *)
TestProbModel ==
    [name |-> <<"TESTPROB">>,
     rows |-> ("COST" :> [row_id |-> 0, row_type |-> "N"]
               @@ "LIM1" :> [row_id |-> 1, row_type |-> "L"]
               @@ "LIM2" :> [row_id |-> 2, row_type |-> "G"]
               @@ "MYEQN" :> [row_id |-> 3, row_type |-> "E"]),
     columns |-> ("XONE" :> 0 @@ "YTWO" :> 1 @@ "ZTHREE" :> 2),
     elements |-> (<<0, 0>> :> 1 @@ <<1, 0>> :> 1 @@ <<2, 0>> :> 1
                   @@ <<0, 1>> :> 4 @@ <<1, 1>> :> 1 @@ <<3, 1>> :> -1
                   @@ <<0, 2>> :> 9 @@ <<2, 2>> :> 1 @@ <<3, 2>> :> 1),
     rhs |-> ("LIM1" :> 5 @@ "LIM2" :> 10 @@ "MYEQN" :> 7),
     ranges |-> ("LIM1" :> 6 @@ "LIM2" :> 5),
     bounds |-> ("XONE" :> <<[bound_type |-> "UP", value |-> 4]>>
                 @@ "YTWO" :> <<[bound_type |-> "LO", value |-> -1],
                                [bound_type |-> "UP", value |-> 1]>>)]

(* C25: the canonical document TESTPROB parses to the model of the tests:  *)
(* 4 rows with ids 0..3, 3 columns with ids 0..2, 9 elements, 3 rhs        *)
(* entries, 2 ranges, and bounds for XONE and YTWO.                        *)
C25_CanonicalScenario ==
    (Finished /\ doc = TestProb) => (pc = "done" /\ self = TestProbModel)

C25_Witness ==
    /\ pc = "done"
    /\ doc = TestProb
    /\ Cardinality(DOMAIN self.elements) = 9
    /\ Len(self.bounds["YTWO"]) = 2

(* C27: when the statements of two calls on independent documents          *)
(* interleave in any order, each call ends in the outcome, model or error  *)
(* kind, it has when run alone.                                            *)
C27_InterleavedCallsIndependent ==
    \A c \in {1, 2} :
        pc[c] \in {"done", "failed"} => Outcome(CallOf(c)) = CMPS(doc[c])

C27_Witness ==
    /\ pc = <<"done", "failed">>
    /\ doc[1] = TestProb
    /\ raised[2] = "UnknownRowException"
    /\ self[1] = CMPS(TestProb).model
    /\ self[2] = NoAttributes

(* The error of the scan of d and of the checks that follow it, "none"     *)
(* when the sections are handed to the processors.                         *)
ExpectedIntakeError(d) ==
    LET s == UpToENDATA(d)
        h == Range(Headers(s))
    IN  IF ~DataFollowsSection(s) THEN "NotMPSFileException"
        ELSE IF "NAME" \notin h THEN "NoNAMEException"
        ELSE IF "ROWS" \notin h THEN "NoROWSException"
        ELSE IF "COLUMNS" \notin h THEN "NoCOLUMNSException"
        ELSE IF "RHS" \notin h THEN "NoRHSException"
        ELSE IF "ENDATA" \notin h THEN "NoENDATAException"
        ELSE IF SectionData(s, "ROWS") = {} THEN "NoROWSDataException"
        ELSE IF SectionData(s, "COLUMNS") = {} THEN "NoCOLUMNSDataException"
        ELSE "none"

(* The error of the first processor that raises, in the order ROWS,        *)
(* COLUMNS, RHS, RANGES, BOUNDS, "none" when none does.                    *)
ExpectedProcessorError ==
    LET r == process_ROWS(mps_data.rows_data)
        c == process_COLUMNS(mps_data.columns_data, r.rows_info)
        h == process_RHS(mps_data.rhs_data, r.rows_info)
        g == process_RANGES(mps_data.ranges_data, r.rows_info)
        b == process_BOUNDS(mps_data.bounds_data, c.columns_dict)
    IN  IF r.raised # "none" THEN r.raised
        ELSE IF c.raised # "none" THEN c.raised
        ELSE IF h.raised # "none" THEN h.raised
        ELSE IF g.raised # "none" THEN g.raised
        ELSE b.raised

(* C28: the error reported is NotMPSFileException of the scan, or else the *)
(* first failing check in the order NAME, ROWS, COLUMNS, RHS, ENDATA,      *)
(* ROWS data, COLUMNS data, and no processor runs; or else the error of    *)
(* the first processor that raises, in the order ROWS, COLUMNS, RHS,       *)
(* RANGES, BOUNDS.                                                         *)
C28_ErrorPrecedence ==
    Finished =>
        IF ExpectedIntakeError(doc) # "none"
        THEN raised = ExpectedIntakeError(doc) /\ ReachesNoProcessor
        ELSE raised = ExpectedProcessorError

C28_Witness ==
    /\ pc = "failed"
    /\ raised = "NoENDATAException"
    /\ ReachesNoProcessor
    /\ \E k \in DOMAIN doc : doc[k] = BadLine("ROWS")
    /\ \E k \in DOMAIN doc : doc[k] = BadLine("BOUNDS")

(* The lines of d that follow its first ENDATA line.                       *)
AfterENDATA(d) == SubSeq(d, Len(UpToENDATA(d)) + 1, Len(d))

(* C29: the scan stops at the first ENDATA line, so that the outcome of a  *)
(* document is the outcome of its part up to the first ENDATA line,        *)
(* whatever lines follow it.                                               *)
C29_NothingReadAfterENDATA ==
    Finished => Outcome(Call) = CMPS(UpToENDATA(doc))

C29_Witness ==
    /\ pc = "done"
    /\ AfterENDATA(doc) = << <<"NAME", "OTHER">>, <<"", "N", "R9">> >>
    /\ self = TestProbModel

(* The layouts of the sections that have more than one, in the order the   *)
(* processor tries them.                                                   *)
Layouts(S) ==
    CASE S = "COLUMNS" -> <<"COLUMNS_2", "COLUMNS_1">>
      [] S = "RHS" -> <<"RHS_2", "RHS_1", "RHS_2_EXTRA", "RHS_1_EXTRA">>
      [] S = "RANGES" -> <<"RANGES_2", "RANGES_1">>

LayoutMatches(layout, line) ==
    CASE layout = "COLUMNS_2" -> MPS_COLUMNS_2_DATA_RE(line)
      [] layout = "COLUMNS_1" -> MPS_COLUMNS_1_DATA_RE(line)
      [] layout = "RHS_2" -> MPS_RHS_2_DATA_RE(line)
      [] layout = "RHS_1" -> MPS_RHS_1_DATA_RE(line)
      [] layout = "RHS_2_EXTRA" -> MPS_RHS_2_DATA_EXTRA_RE(line)
      [] layout = "RHS_1_EXTRA" -> MPS_RHS_1_DATA_EXTRA_RE(line)
      [] layout = "RANGES_2" -> MPS_RANGES_2_DATA_RE(line)
      [] layout = "RANGES_1" -> MPS_RANGES_1_DATA_RE(line)

(* The orders in which the layouts of S can be tried.                      *)
TrialOrders(S) ==
    {o \in [DOMAIN Layouts(S) -> Range(Layouts(S))] :
        Range(o) = Range(Layouts(S))}

(* The layout a line is classified as when the layouts are tried in the    *)
(* order o: the first that matches, "none" when none does.                 *)
RECURSIVE FirstMatch(_, _)
FirstMatch(o, line) ==
    IF o = <<>> THEN "none"
    ELSE IF LayoutMatches(Head(o), line) THEN Head(o)
    ELSE FirstMatch(Tail(o), line)

LayoutSections == {"COLUMNS", "RHS", "RANGES"}

LayoutLines(S) ==
    IF S = "COLUMNS" THEN mps_data.columns_data ELSE SectionLines(S)

(* C30: at most one layout of its section matches a data line, so that the *)
(* line is classified the same in whatever order the layouts are tried.    *)
C30_OneLayoutPerLine ==
    \A S \in LayoutSections : \A k \in DOMAIN LayoutLines(S) :
        LET line == LayoutLines(S)[k] IN
        /\ Cardinality({l \in Range(Layouts(S)) : LayoutMatches(l, line)}) <= 1
        /\ \A o \in TrialOrders(S) :
                FirstMatch(o, line) = FirstMatch(Layouts(S), line)

C30_Witness ==
    /\ pc = "done"
    /\ \E k \in DOMAIN mps_data.columns_data :
            /\ MPS_COLUMNS_2_DATA_RE(mps_data.columns_data[k])
            /\ ~MPS_COLUMNS_1_DATA_RE(mps_data.columns_data[k])
            /\ Len(Fields(mps_data.columns_data[k])) = 5
    /\ \E k \in DOMAIN mps_data.columns_data :
            MPS_COLUMNS_1_DATA_RE(mps_data.columns_data[k])

====
